---- MODULE Spec2Model ----
(***************************************************************************)
(* Weekly therapy scheduler: the CP-SAT formulation built by               *)
(* SchedulerModel (model.py) over an Instance (data_loader.py), the solve  *)
(* driver that extracts the schedule or, on failure, runs the three        *)
(* diagnostics explainers, the external guard validate_schedule (api.py),  *)
(* load_instance with the time-string parsing of time_utils.py, and the   *)
(* requests of the API (api.py) over the stored objects (storage.py).      *)
(*                                                                         *)
(* The solver itself is an external engine: solver.Solve is modelled as a  *)
(* nondeterministic choice among the assignments of the 0/1 decision       *)
(* variables that satisfy every constraint the code adds to the model.     *)
(***************************************************************************)
EXTENDS Integers, Sequences, FiniteSets, TLC

VARIABLES
    pc,                 \* "ready" -> "solved" -> "validated"; "load" -> "loaded" or "raised",
                        \* or "load" -> "accepted" or "refused" for a request;
                        \* "api" while the API serves requests
    instance,           \* the Instance handed to SchedulerModel
    objective_weights,  \* ObjectiveWeights(patient_days_weight, therapist_idle_gap_weight)
    session_active,     \* keys of self.session_active   (therapy, room, day, block)
    patient_sessions,   \* keys of self.patient_sessions (patient, therapy, room, day, block)
    staffing,           \* keys of self.staffing (therapist, therapy, room, day, block, specialty)
    result,             \* the SolveResult returned by solve()
    guard_raised,       \* whether validate_schedule raised on result.schedule
    document,           \* the parsed JSON document load_instance reads, or the entities of a request
    load_error,         \* the check of load_instance that raised, "" if none
    backend,            \* SCHEDULER_STORAGE_BACKEND: "local" or "gcs"
    storage,            \* the stored objects: key (path segments) -> content
    requests,           \* the HTTP requests in flight: slot -> handler position and locals
    utcnow              \* datetime.utcnow(), as a counter

solver_vars == <<pc, instance, objective_weights, session_active, patient_sessions,
                 staffing, result, guard_raised, document, load_error>>

api_vars == <<backend, storage, requests, utcnow>>

vars == <<solver_vars, api_vars>>

MaxRequests == 3      \* requests the API serves in one behaviour

Slots == 1..MaxRequests

\* a slot no request has taken yet
IdleRequest ==
    [kind |-> "none", pc |-> "idle", user |-> <<>>, session_id |-> <<>>, payload |-> <<>>,
     status |-> "", schedule |-> <<>>, started_at |-> 0, finished_at |-> 0,
     keys |-> {}, runs |-> {}, listed |-> <<>>, response |-> 0]

\* the API at rest with nothing stored
ApiIdle ==
    /\ backend = "local"
    /\ storage = <<>>
    /\ requests = [i \in Slots |-> IdleRequest]
    /\ utcnow = 0

----------------------------------------------------------------------------
(* Generic helpers *)

Range(seq) == {seq[i] : i \in DOMAIN seq}

Get(f, k, default) == IF k \in DOMAIN f THEN f[k] ELSE default

Min(a, b) == IF a <= b THEN a ELSE b

Bit(flag) == IF flag THEN 1 ELSE 0

----------------------------------------------------------------------------
(* time_utils.py *)

DAY_ORDER == <<"Monday", "Tuesday", "Wednesday", "Thursday", "Friday">>

Days == Range(DAY_ORDER)

\* DAY_ORDER.index(day)
DayIndex(day) == (CHOOSE i \in DOMAIN DAY_ORDER : DAY_ORDER[i] = day) - 1

BLOCKS == 0..8

BLOCK_TO_RANGE ==
    0 :> "08:00-09:00" @@
    1 :> "09:00-10:00" @@
    2 :> "10:00-11:00" @@
    3 :> "11:00-12:00" @@
    4 :> "12:00-13:00" @@
    5 :> "14:00-15:00" @@
    6 :> "15:00-16:00" @@
    7 :> "16:00-17:00" @@
    8 :> "17:00-18:00"

block_to_range(block) == BLOCK_TO_RANGE[block]

\* [list(range(0, 5)), list(range(5, 9))]
consecutive_segments == << <<0, 1, 2, 3, 4>>, <<5, 6, 7, 8>> >>

----------------------------------------------------------------------------
(* Python's ordering of str: lexicographic on code points.  CodePoints     *)
(* spells out every string the model sorts.                                *)

CodePoints ==
    "P1" :> <<80, 49>> @@
    "P2" :> <<80, 50>> @@
    "P3" :> <<80, 51>> @@
    "T1" :> <<84, 49>> @@
    "T2" :> <<84, 50>> @@
    "T3" :> <<84, 51>> @@
    "R1" :> <<82, 49>> @@
    "R2" :> <<82, 50>> @@
    "speech" :> <<115, 112, 101, 101, 99, 104>> @@
    "group" :> <<103, 114, 111, 117, 112>> @@
    "art" :> <<97, 114, 116>> @@
    "lang" :> <<108, 97, 110, 103>> @@
    "motor" :> <<109, 111, 116, 111, 114>> @@
    "08:00-09:00" :> <<48, 56, 58, 48, 48, 45, 48, 57, 58, 48, 48>> @@
    "09:00-10:00" :> <<48, 57, 58, 48, 48, 45, 49, 48, 58, 48, 48>> @@
    "10:00-11:00" :> <<49, 48, 58, 48, 48, 45, 49, 49, 58, 48, 48>> @@
    "11:00-12:00" :> <<49, 49, 58, 48, 48, 45, 49, 50, 58, 48, 48>> @@
    "12:00-13:00" :> <<49, 50, 58, 48, 48, 45, 49, 51, 58, 48, 48>> @@
    "14:00-15:00" :> <<49, 52, 58, 48, 48, 45, 49, 53, 58, 48, 48>> @@
    "15:00-16:00" :> <<49, 53, 58, 48, 48, 45, 49, 54, 58, 48, 48>> @@
    "16:00-17:00" :> <<49, 54, 58, 48, 48, 45, 49, 55, 58, 48, 48>> @@
    "17:00-18:00" :> <<49, 55, 58, 48, 48, 45, 49, 56, 58, 48, 48>> @@
    "08:00-12:00" :> <<48, 56, 58, 48, 48, 45, 49, 50, 58, 48, 48>> @@
    "08:30-09:30" :> <<48, 56, 58, 51, 48, 45, 48, 57, 58, 51, 48>> @@
    "13:00-14:00" :> <<49, 51, 58, 48, 48, 45, 49, 52, 58, 48, 48>> @@
    "12:00-15:00" :> <<49, 50, 58, 48, 48, 45, 49, 53, 58, 48, 48>> @@
    "8:00-9:00" :> <<56, 58, 48, 48, 45, 57, 58, 48, 48>> @@
    "08:00" :> <<48, 56, 58, 48, 48>> @@
    "0800-0900" :> <<48, 56, 48, 48, 45, 48, 57, 48, 48>> @@
    "08:00-xx:00" :> <<48, 56, 58, 48, 48, 45, 120, 120, 58, 48, 48>> @@
    "morning" :> <<109, 111, 114, 110, 105, 110, 103>> @@
    "T9" :> <<84, 57>> @@
    "Monday" :> <<77, 111, 110, 100, 97, 121>> @@
    "Tuesday" :> <<84, 117, 101, 115, 100, 97, 121>>

\* a < b for two sequences of integers, as Python compares lists/strings
SeqLess(a, b) ==
    \E i \in 1..(Len(a) + 1) :
        /\ i <= Len(b)
        /\ \A j \in 1..(i - 1) : a[j] = b[j]
        /\ (i = Len(a) + 1 \/ a[i] < b[i])

\* a < b for two sort keys: tuples whose components are integer sequences
KeyLess(a, b) ==
    \E i \in 1..Len(a) :
        /\ \A j \in 1..(i - 1) : a[j] = b[j]
        /\ SeqLess(a[i], b[i])

\* sorted(...) of the items of a set of <<key, item>> pairs; the keys are
\* pairwise different wherever the code sorts, so stability plays no part
RECURSIVE SortedByKey(_)
SortedByKey(pairs) ==
    IF pairs = {} THEN <<>>
    ELSE LET first == CHOOSE e \in pairs :
                          \A o \in pairs \ {e} : KeyLess(e[1], o[1])
         IN  <<first[2]>> \o SortedByKey(pairs \ {first})

----------------------------------------------------------------------------
(* time_utils.py: parsing of time strings.  A string is read through its   *)
(* code points; a call that raises ValueError yields a record with          *)
(* error = TRUE.                                                            *)

\* str.split(sep) on the code points of a string
RECURSIVE Split(_, _)
Split(chars, sep) ==
    IF \A i \in DOMAIN chars : chars[i] # sep THEN <<chars>>
    ELSE LET at == CHOOSE i \in DOMAIN chars :
                       chars[i] = sep /\ \A j \in 1..(i - 1) : chars[j] # sep
         IN  <<SubSeq(chars, 1, at - 1)>> \o Split(SubSeq(chars, at + 1, Len(chars)), sep)

\* int(text) for text made of ASCII digits; anything else in the strings of
\* CodePoints raises ValueError
RECURSIVE ParseInt(_)
ParseInt(chars) ==
    IF chars = <<>> \/ \E i \in DOMAIN chars : chars[i] \notin 48..57
    THEN [error |-> TRUE, value |-> 0]
    ELSE IF Len(chars) = 1 THEN [error |-> FALSE, value |-> chars[1] - 48]
    ELSE [error |-> FALSE,
          value |-> 10 * ParseInt(SubSeq(chars, 1, Len(chars) - 1)).value
                        + (chars[Len(chars)] - 48)]

\* _to_minutes: hours, minutes = clock.split(":")
to_minutes(clock) ==
    LET parts == Split(clock, 58)
    IN  IF Len(parts) # 2 \/ ParseInt(parts[1]).error \/ ParseInt(parts[2]).error
        THEN [error |-> TRUE, value |-> 0]
        ELSE [error |-> FALSE,
              value |-> ParseInt(parts[1]).value * 60 + ParseInt(parts[2]).value]

\* Interval.parse: start_str, end_str = interval_str.split("-")
IntervalParse(interval_str) ==
    LET parts == Split(CodePoints[interval_str], 45)
    IN  IF Len(parts) # 2 \/ to_minutes(parts[1]).error \/ to_minutes(parts[2]).error
        THEN [error |-> TRUE, start_minutes |-> 0, end_minutes |-> 0]
        ELSE [error |-> FALSE,
              start_minutes |-> to_minutes(parts[1]).value,
              end_minutes |-> to_minutes(parts[2]).value]

\* block_minutes: the start and end minutes of a block
block_minutes(block) ==
    LET mapping ==
            0 :> [start_minutes |-> 8 * 60, end_minutes |-> 9 * 60] @@
            1 :> [start_minutes |-> 9 * 60, end_minutes |-> 10 * 60] @@
            2 :> [start_minutes |-> 10 * 60, end_minutes |-> 11 * 60] @@
            3 :> [start_minutes |-> 11 * 60, end_minutes |-> 12 * 60] @@
            4 :> [start_minutes |-> 12 * 60, end_minutes |-> 13 * 60] @@
            5 :> [start_minutes |-> 14 * 60, end_minutes |-> 15 * 60] @@
            6 :> [start_minutes |-> 15 * 60, end_minutes |-> 16 * 60] @@
            7 :> [start_minutes |-> 16 * 60, end_minutes |-> 17 * 60] @@
            8 :> [start_minutes |-> 17 * 60, end_minutes |-> 18 * 60]
    IN  mapping[block]

\* contains_block with the test on the end of the block left out
contains_block_by_start(interval, block) ==
    interval.start_minutes <= block_minutes(block).start_minutes

\* Interval.contains_block: the block lies fully inside the interval
contains_block(interval, block) ==
    /\ interval.start_minutes <= block_minutes(block).start_minutes
    /\ block_minutes(block).end_minutes <= interval.end_minutes

\* range_to_block accepting every string Interval.parse accepts
range_to_block_lenient(range_str) ==
    IF IntervalParse(range_str).error THEN [error |-> TRUE, value |-> 0]
    ELSE [error |-> FALSE, value |-> 0]

\* range_to_block: the block whose canonical range is range_str, else ValueError
range_to_block(range_str) ==
    IF \E b \in DOMAIN BLOCK_TO_RANGE : BLOCK_TO_RANGE[b] = range_str
    THEN [error |-> FALSE,
          value |-> CHOOSE b \in DOMAIN BLOCK_TO_RANGE : BLOCK_TO_RANGE[b] = range_str]
    ELSE [error |-> TRUE, value |-> 0]

\* intervals_to_block_set: the blocks some interval contains
intervals_to_block_set(intervals) ==
    IF \E i \in DOMAIN intervals : IntervalParse(intervals[i]).error
    THEN [error |-> TRUE, value |-> {}]
    ELSE [error |-> FALSE,
          value |-> {b \in BLOCKS :
                        \E i \in DOMAIN intervals :
                            contains_block(IntervalParse(intervals[i]), b)}]

\* availability_to_blocks_per_day: days with an empty list are dropped
availability_to_blocks_per_day(avail_map) ==
    LET days == {day \in DOMAIN avail_map : avail_map[day] # <<>>}
    IN  IF \E day \in days : intervals_to_block_set(avail_map[day]).error
        THEN [error |-> TRUE, value |-> <<>>]
        ELSE [error |-> FALSE,
              value |-> [day \in days |-> intervals_to_block_set(avail_map[day]).value]]

----------------------------------------------------------------------------
(* data_loader.py: the Instance.  Lists with unique ids are sequences of   *)
(* records; dicts are functions on their key sets.                         *)

Therapist(id, specialties, availability) ==
    [id |-> id, specialties |-> specialties, availability |-> availability]

Patient(id, therapies, availability, max_continuous_hours, no_same_day_therapies, fixed_therapists, pinned_sessions) ==
    [id |-> id, therapies |-> therapies, availability |-> availability,
     max_continuous_hours |-> max_continuous_hours,
     no_same_day_therapies |-> no_same_day_therapies,
     fixed_therapists |-> fixed_therapists,
     pinned_sessions |-> pinned_sessions]

PinnedSession(day, block) == [day |-> day, block |-> block]

Room(id, therapies, capacity) ==
    [id |-> id, therapies |-> therapies, capacity |-> capacity]

TherapyInfo(requirements, min_patients, max_patients) ==
    [requirements |-> requirements, min_patients |-> min_patients,
     max_patients |-> max_patients]

Instance(therapists, patients, rooms, specialties, therapies) ==
    [therapists |-> therapists, patients |-> patients, rooms |-> rooms,
     specialties |-> specialties, therapies |-> therapies]

----------------------------------------------------------------------------
(* model.py: build_base_variables *)

\* key (therapy, room, day, block) of the session a patient key belongs to
SessionOfPatientKey(q) == <<q[2], q[3], q[4], q[5]>>

\* key (therapy, room, day, block) of the session a staffing key belongs to
SessionOfStaffKey(q) == <<q[2], q[3], q[4], q[5]>>

\* RoomAllows without the membership test: every room takes every therapy
RoomAllows_any(room, therapy_id) == TRUE

\* the test of lines 58 and 105: "if therapy_id not in room.therapies: continue"
RoomAllows(room, therapy_id) == therapy_id \in room.therapies

\* TherapistCandidate without the availability test of lines 67-71
TherapistCandidate_any_time(therapist, specialty, day, block) ==
    specialty \in therapist.specialties

\* the tests of lines 65-71 on a therapist
TherapistCandidate(therapist, specialty, day, block) ==
    /\ specialty \in therapist.specialties
    /\ day \in DOMAIN therapist.availability
    /\ block \in therapist.availability[day]

\* pinned_by_therapy.get(therapy_id, {}).get(day, set())
pinned_by_therapy(patient, therapy_id, day) ==
    {slot.block : slot \in {sl \in Range(Get(patient.pinned_sessions, therapy_id, <<>>)) :
                               sl.day = day}}

\* the blocks of a day without blocks.update(pins)
PatientBlocks_availability_only(patient, therapy_id, day) ==
    Get(patient.availability, day, {})

\* blocks = set(patient.availability.get(day, set())); blocks.update(pins)
PatientBlocks(patient, therapy_id, day) ==
    Get(patient.availability, day, {}) \cup pinned_by_therapy(patient, therapy_id, day)

\* lines 56-86: the staffing variables (and their session variables)
StaffingKeys(inst) ==
    UNION {
        {<<c[2].id, therapy_id, c[1].id, c[3], c[4], c[5]>> :
            c \in {c \in Range(inst.rooms) \X Range(inst.therapists) \X Days \X BLOCKS
                          \X (DOMAIN inst.therapies[therapy_id].requirements) :
                      /\ RoomAllows(c[1], therapy_id)
                      /\ TherapistCandidate(c[2], c[5], c[3], c[4])}}
        : therapy_id \in DOMAIN inst.therapies}

\* lines 56-62: get_session_var for every therapy, allowing room, day and block
SessionKeys(inst) ==
    UNION {
        {<<therapy_id, room.id, day, block>> :
            room \in {r \in Range(inst.rooms) : RoomAllows(r, therapy_id)},
            day \in Days, block \in BLOCKS}
        : therapy_id \in DOMAIN inst.therapies}

\* lines 88-113: the patient assignment variables of one patient
PatientKeysOf(inst, patient) ==
    UNION {
        {<<patient.id, therapy_id, room.id, db[1], db[2]>> :
            room \in {r \in Range(inst.rooms) : RoomAllows(r, therapy_id)},
            db \in UNION {{<<day, block>> : block \in PatientBlocks(patient, therapy_id, day)}
                          : day \in Days}}
        : therapy_id \in {u \in DOMAIN patient.therapies : patient.therapies[u] > 0}}

PatientSessionKeys(inst) ==
    UNION {PatientKeysOf(inst, patient) : patient \in Range(inst.patients)}

\* (session_active, patient_sessions, staffing) as returned by build_base_variables
build_base_variables(inst) ==
    LET keys == PatientSessionKeys(inst)
    IN  [session_active |-> SessionKeys(inst) \cup {SessionOfPatientKey(q) : q \in keys},
         patient_sessions |-> keys,
         staffing |-> StaffingKeys(inst)]

\* "staff_var <= session_var" (line 86) for one staffing key
StaffLinked(q, s) == SessionOfStaffKey(q) \in s

\* "assign_var <= session_var" (line 113) for one patient key
PatientLinked(q, s) == SessionOfPatientKey(q) \in s

----------------------------------------------------------------------------
(* model.py: the hard constraints of the primary model (diagnostic_mode is *)
(* None).  V holds the three key tables; x, s and t are the sets of        *)
(* patient, session and staffing keys whose variable has value 1.          *)

RoomById(inst, room_id) == CHOOSE room \in Range(inst.rooms) : room.id = room_id

\* session_capacity_at with the therapy's own maximum as the upper limit,
\* whatever the room holds
session_capacity_therapy_only(inst, V, k, x, active) ==
    LET total_patients == Cardinality({q \in x : SessionOfPatientKey(q) = k})
        therapy_info == inst.therapies[k[1]]
    IN  /\ total_patients <= therapy_info.max_patients
        /\ total_patients >= therapy_info.min_patients * Bit(active)

\* the two constraints of _session_capacity_constraints for one session key
session_capacity_at(inst, V, k, x, active) ==
    LET total_patients == Cardinality({q \in x : SessionOfPatientKey(q) = k})
        therapy_info == inst.therapies[k[1]]
        room == RoomById(inst, k[2])
        max_allowed == Min(therapy_info.max_patients, room.capacity)
    IN  /\ total_patients <= max_allowed
        /\ total_patients >= therapy_info.min_patients * Bit(active)

session_capacity_constraints(inst, V, x, s) ==
    \A k \in V.session_active : session_capacity_at(inst, V, k, x, k \in s)

\* staffing_requirements_at as a lower limit on the staff of an open session
staffing_requirements_at_least(inst, V, k, specialty, t, active) ==
    LET required == inst.therapies[k[1]].requirements[specialty]
        staff_vars == {q \in V.staffing :
                          SessionOfStaffKey(q) = k /\ q[6] = specialty}
    IN  IF staff_vars # {}
        THEN Cardinality(staff_vars \cap t) >= required * Bit(active)
        ELSE required > 0 => ~active

\* the constraint of _staffing_requirements for one session key and specialty
staffing_requirements_at(inst, V, k, specialty, t, active) ==
    LET required == inst.therapies[k[1]].requirements[specialty]
        staff_vars == {q \in V.staffing :
                          SessionOfStaffKey(q) = k /\ q[6] = specialty}
    IN  IF staff_vars # {}
        THEN Cardinality(staff_vars \cap t) = required * Bit(active)
        ELSE required > 0 => ~active

staffing_requirements(inst, V, s, t) ==
    \A k \in V.session_active :
        \A specialty \in DOMAIN inst.therapies[k[1]].requirements :
            staffing_requirements_at(inst, V, k, specialty, t, k \in s)

\* patient_requirements as an upper limit on the sessions attended
patient_requirements_at_most(inst, V, x) ==
    \A patient \in Range(inst.patients) :
        \A therapy_id \in DOMAIN patient.therapies :
            LET required == patient.therapies[therapy_id]
                vars_for_requirement ==
                    {q \in V.patient_sessions : q[1] = patient.id /\ q[2] = therapy_id}
            IN  required >= 0 =>
                    Cardinality(vars_for_requirement \cap x) <= required

patient_requirements(inst, V, x) ==
    \A patient \in Range(inst.patients) :
        \A therapy_id \in DOMAIN patient.therapies :
            LET required == patient.therapies[therapy_id]
                vars_for_requirement ==
                    {q \in V.patient_sessions : q[1] = patient.id /\ q[2] = therapy_id}
            IN  required >= 0 =>
                    Cardinality(vars_for_requirement \cap x) = required

\* patient_pinned_sessions as an upper limit on the pinned slot
patient_pinned_sessions_at_most(inst, V, x) ==
    \A patient \in Range(inst.patients) :
        \A therapy_id \in DOMAIN patient.pinned_sessions :
            \A slot \in Range(patient.pinned_sessions[therapy_id]) :
                LET vars_for_slot ==
                        {q \in V.patient_sessions :
                            /\ q[1] = patient.id /\ q[2] = therapy_id
                            /\ q[4] = slot.day /\ q[5] = slot.block}
                IN  Cardinality(vars_for_slot \cap x) <= 1

patient_pinned_sessions(inst, V, x) ==
    \A patient \in Range(inst.patients) :
        \A therapy_id \in DOMAIN patient.pinned_sessions :
            \A slot \in Range(patient.pinned_sessions[therapy_id]) :
                LET vars_for_slot ==
                        {q \in V.patient_sessions :
                            /\ q[1] = patient.id /\ q[2] = therapy_id
                            /\ q[4] = slot.day /\ q[5] = slot.block}
                IN  Cardinality(vars_for_slot \cap x) = 1

\* patient_fixed_therapists that skips the slots where the fixed therapist
\* has no staffing variable
patient_fixed_therapists_when_candidate(inst, V, x, t) ==
    \A patient \in Range(inst.patients) :
        \A therapy_id \in DOMAIN patient.fixed_therapists :
            \A specialty \in DOMAIN patient.fixed_therapists[therapy_id] :
                \A therapist_id \in
                        {id \in Range(patient.fixed_therapists[therapy_id][specialty]) :
                            id # ""} :
                    \A q \in {c \in V.patient_sessions :
                                 c[1] = patient.id /\ c[2] = therapy_id} :
                        LET staff_key == <<therapist_id, therapy_id, q[3], q[4], q[5],
                                           specialty>>
                        IN  staff_key \in V.staffing => (q \in x => staff_key \in t)

patient_fixed_therapists(inst, V, x, t) ==
    \A patient \in Range(inst.patients) :
        \A therapy_id \in DOMAIN patient.fixed_therapists :
            \A specialty \in DOMAIN patient.fixed_therapists[therapy_id] :
                \A therapist_id \in
                        {id \in Range(patient.fixed_therapists[therapy_id][specialty]) :
                            id # ""} :
                    \A q \in {c \in V.patient_sessions :
                                 c[1] = patient.id /\ c[2] = therapy_id} :
                        LET staff_key == <<therapist_id, therapy_id, q[3], q[4], q[5],
                                           specialty>>
                        IN  IF staff_key \in V.staffing
                            THEN q \in x => staff_key \in t
                            ELSE q \notin x

\* patient_no_same_day_therapies with the variables grouped by day and block
patient_no_same_day_therapies_per_block(inst, V, x) ==
    \A patient \in Range(inst.patients) :
        \A therapy_id \in patient.no_same_day_therapies :
            \A day \in Days :
                \A block \in BLOCKS :
                    LET vars_for_day ==
                            {q \in V.patient_sessions :
                                /\ q[1] = patient.id /\ q[4] = day /\ q[5] = block
                                /\ q[2] = therapy_id}
                    IN  vars_for_day # {} => Cardinality(vars_for_day \cap x) <= 1

patient_no_same_day_therapies(inst, V, x) ==
    \A patient \in Range(inst.patients) :
        \A therapy_id \in patient.no_same_day_therapies :
            \A day \in Days :
                LET vars_for_day ==
                        {q \in V.patient_sessions :
                            q[1] = patient.id /\ q[4] = day /\ q[2] = therapy_id}
                IN  vars_for_day # {} => Cardinality(vars_for_day \cap x) <= 1

\* one_session_per_time with the variables grouped by room as well
one_session_per_time_per_room(inst, V, x) ==
    \A patient \in Range(inst.patients) :
        \A room \in Range(inst.rooms) :
            \A day \in Days :
                \A block \in BLOCKS :
                    LET overlapping ==
                            {q \in V.patient_sessions :
                                /\ q[1] = patient.id /\ q[3] = room.id
                                /\ q[4] = day /\ q[5] = block}
                    IN  overlapping # {} => Cardinality(overlapping \cap x) <= 1

one_session_per_time(inst, V, x) ==
    \A patient \in Range(inst.patients) :
        \A day \in Days :
            \A block \in BLOCKS :
                LET overlapping ==
                        {q \in V.patient_sessions :
                            q[1] = patient.id /\ q[4] = day /\ q[5] = block}
                IN  overlapping # {} => Cardinality(overlapping \cap x) <= 1

\* WindowsOf with idx in range(len(segment) - 4): the last window is lost
WindowsOf_short(segment) ==
    IF Len(segment) < 4 THEN {}
    ELSE {{segment[idx + j] : j \in 1..4} : idx \in 0..(Len(segment) - 5)}

\* the windows segment[idx : idx + 4] for idx in range(len(segment) - 3)
WindowsOf(segment) ==
    IF Len(segment) < 4 THEN {}
    ELSE {{segment[idx + j] : j \in 1..4} : idx \in 0..(Len(segment) - 4)}

patient_continuous_hours_limit(inst, V, x) ==
    \A patient \in Range(inst.patients) :
        \A day \in Days :
            \A segment \in Range(consecutive_segments) :
                \A window_blocks \in WindowsOf(segment) :
                    LET window_vars ==
                            {q \in V.patient_sessions :
                                /\ q[1] = patient.id /\ q[4] = day
                                /\ q[5] \in window_blocks}
                    IN  window_vars # {} =>
                            Cardinality(window_vars \cap x) <= patient.max_continuous_hours

\* first half of _therapist_and_room_single_session
therapist_single_session(inst, V, t) ==
    \A therapist \in Range(inst.therapists) :
        \A day \in Days :
            \A block \in BLOCKS :
                LET sessions == {q \in V.staffing :
                                    q[1] = therapist.id /\ q[4] = day /\ q[5] = block}
                IN  sessions # {} => Cardinality(sessions \cap t) <= 1

\* second half of _therapist_and_room_single_session
room_single_session(inst, V, s) ==
    \A room \in Range(inst.rooms) :
        \A day \in Days :
            \A block \in BLOCKS :
                LET sessions == {k \in V.session_active :
                                    k[2] = room.id /\ k[3] = day /\ k[4] = block}
                IN  sessions # {} => Cardinality(sessions \cap s) <= 1

therapist_and_room_single_session(inst, V, s, t) ==
    /\ therapist_single_session(inst, V, t)
    /\ room_single_session(inst, V, s)

----------------------------------------------------------------------------
(* model.py: the indicators that feed the objective (primary model only)   *)

\* the values v of a 0/1 indicator allowed by "total >= v" and "total <= n * v"
IndicatorValues(total, n) == {v \in {0, 1} : total >= v /\ total <= n * v}

\* _build_therapist_busy_indicators: keys of self.therapist_busy
BusyKeys(inst, V) ==
    {c \in {therapist.id : therapist \in Range(inst.therapists)} \X Days \X BLOCKS :
        \E q \in V.staffing : q[1] = c[1] /\ q[4] = c[2] /\ q[5] = c[3]}

\* the busy keys whose indicator has value 1 under the staffing values t
therapist_busy(inst, V, t) ==
    {c \in BusyKeys(inst, V) :
        LET sessions == {q \in V.staffing : q[1] = c[1] /\ q[4] = c[2] /\ q[5] = c[3]}
        IN  1 \in IndicatorValues(Cardinality(sessions \cap t), Cardinality(sessions))}

\* _therapist_idle_gaps: (therapist, day, block, prev_block, next_block) of
\* every gap variable appended to self.idle_gaps
GapKeys(inst, V) ==
    LET busy_keys == BusyKeys(inst, V)
        ids == {therapist.id : therapist \in Range(inst.therapists)}
    IN  UNION {
            {<<c[1], c[2], segment[c[3] + 1], segment[c[3]], segment[c[3] + 2]>> :
                c \in {c \in ids \X Days \X (1..(Len(segment) - 2)) :
                          /\ <<c[1], c[2], segment[c[3]]>> \in busy_keys
                          /\ <<c[1], c[2], segment[c[3] + 1]>> \in busy_keys
                          /\ <<c[1], c[2], segment[c[3] + 2]>> \in busy_keys}}
            : segment \in Range(consecutive_segments)}

\* "gap <= busy_prev", "gap <= busy_next", "gap <= 1 - busy_curr" for one gap
idle_gap_allowed(g, busy) ==
    /\ <<g[1], g[2], g[4]>> \in busy
    /\ <<g[1], g[2], g[5]>> \in busy
    /\ <<g[1], g[2], g[3]>> \notin busy

\* the sets of gap variables that may have value 1 under the staffing values t
therapist_idle_gaps(inst, V, t) ==
    LET busy == therapist_busy(inst, V, t)
    IN  SUBSET {g \in GapKeys(inst, V) : idle_gap_allowed(g, busy)}

\* every (patient, day) key with a patient variable, attended or not
patient_day_used_any_variable(inst, V, x) ==
    {c \in {patient.id : patient \in Range(inst.patients)} \X Days :
        \E q \in V.patient_sessions : q[1] = c[1] /\ q[4] = c[2]}

\* _patient_day_indicators: the (patient, day) keys whose indicator has value 1
patient_day_used(inst, V, x) ==
    {c \in {patient.id : patient \in Range(inst.patients)} \X Days :
        LET vars_for_day == {q \in V.patient_sessions : q[1] = c[1] /\ q[4] = c[2]}
        IN  /\ vars_for_day # {}
            /\ 1 \in IndicatorValues(Cardinality(vars_for_day \cap x),
                                     Cardinality(vars_for_day))}

\* _add_objective with diagnostic_mode None: a weight of 0 drops its term
objective(weights, days_used, gaps) ==
    (IF weights.patient_days_weight # 0
     THEN weights.patient_days_weight * Cardinality(days_used) ELSE 0)
    + (IF weights.therapist_idle_gap_weight # 0
       THEN weights.therapist_idle_gap_weight * Cardinality(gaps) ELSE 0)

----------------------------------------------------------------------------
(* solver.Solve(self.model): the assignments satisfying the primary model  *)

\* A session variable can take value 1 only if the constraints that mention
\* no other variable allow it: the capacity pair of a session without any
\* patient variable, and the staffing rule of a specialty without any staff
\* variable.
CanBeActive(inst, V, k) ==
    /\ (\A q \in V.patient_sessions : SessionOfPatientKey(q) # k)
            => session_capacity_at(inst, V, k, {}, TRUE)
    /\ \A specialty \in DOMAIN inst.therapies[k[1]].requirements :
            (\A q \in V.staffing : ~(SessionOfStaffKey(q) = k /\ q[6] = specialty))
                => staffing_requirements_at(inst, V, k, specialty, {}, TRUE)

\* every constraint _add_constraints and build_base_variables put on x, s and t
Satisfies(inst, V, x, s, t) ==
    /\ \A q \in x : PatientLinked(q, s)
    /\ \A q \in t : StaffLinked(q, s)
    /\ session_capacity_constraints(inst, V, x, s)
    /\ staffing_requirements(inst, V, s, t)
    /\ patient_requirements(inst, V, x)
    /\ patient_pinned_sessions(inst, V, x)
    /\ patient_fixed_therapists(inst, V, x, t)
    /\ patient_no_same_day_therapies(inst, V, x)
    /\ one_session_per_time(inst, V, x)
    /\ patient_continuous_hours_limit(inst, V, x)
    /\ therapist_and_room_single_session(inst, V, s, t)

\* The satisfying assignments [x, s, t], enumerated family by family: the
\* conjuncts of Satisfies are tested as soon as the families they mention
\* are chosen.
Solutions(inst, V) ==
    LET xs == {x \in SUBSET V.patient_sessions :
                  /\ patient_requirements(inst, V, x)
                  /\ patient_pinned_sessions(inst, V, x)
                  /\ patient_no_same_day_therapies(inst, V, x)
                  /\ one_session_per_time(inst, V, x)
                  /\ patient_continuous_hours_limit(inst, V, x)}
        candidates == {k \in V.session_active : CanBeActive(inst, V, k)}
        ss(x) == {s \in SUBSET candidates :
                     /\ \A q \in x : PatientLinked(q, s)
                     /\ room_single_session(inst, V, s)
                     /\ session_capacity_constraints(inst, V, x, s)}
        ts(x, s) == {t \in SUBSET {q \in V.staffing : StaffLinked(q, s)} :
                        /\ therapist_single_session(inst, V, t)
                        /\ staffing_requirements(inst, V, s, t)
                        /\ patient_fixed_therapists(inst, V, x, t)}
    IN  UNION {UNION {{[x |-> x, s |-> s, t |-> t] : t \in ts(x, s)} : s \in ss(x)}
               : x \in xs}

----------------------------------------------------------------------------
(* model.py: the model built with diagnostic_mode "assumptions".  Every    *)
(* constraint of _add_constraints is enforced only if its assumption       *)
(* literal is true; a label is the tuple of the parts joined by "|".  L is *)
(* the set of labels whose literal is true.                                *)

\* the labels _assumption_for registers while _add_constraints runs
AssumptionLabels(inst, V) ==
    {<<"session_capacity", k[1]>> : k \in V.session_active}
    \cup UNION {{<<"staffing", k[1], specialty>> :
                    specialty \in DOMAIN inst.therapies[k[1]].requirements}
                : k \in V.session_active}
    \cup UNION {{<<"patient_requirement", patient.id, therapy_id>> :
                    therapy_id \in {u \in DOMAIN patient.therapies :
                                       patient.therapies[u] >= 0}}
                : patient \in Range(inst.patients)}
    \cup UNION {UNION {{<<"pinned_session", patient.id, therapy_id, slot.day, slot.block>> :
                           slot \in Range(patient.pinned_sessions[therapy_id])}
                       : therapy_id \in DOMAIN patient.pinned_sessions}
                : patient \in Range(inst.patients)}
    \cup UNION {UNION {UNION {{<<"fixed_therapist", patient.id, therapy_id, specialty, id>> :
                                  id \in {i \in Range(patient.fixed_therapists[therapy_id][specialty]) :
                                             /\ i # ""
                                             /\ \E q \in V.patient_sessions :
                                                    q[1] = patient.id /\ q[2] = therapy_id}}
                              : specialty \in DOMAIN patient.fixed_therapists[therapy_id]}
                       : therapy_id \in DOMAIN patient.fixed_therapists}
                : patient \in Range(inst.patients)}
    \cup UNION {{<<"no_same_day", patient.id, therapy_id>> :
                    therapy_id \in {u \in patient.no_same_day_therapies :
                                       \E q \in V.patient_sessions :
                                           q[1] = patient.id /\ q[2] = u}}
                : patient \in Range(inst.patients)}
    \cup {<<"patient_one_session", q[1]>> : q \in V.patient_sessions}
    \cup {<<"patient_continuous", q[1]>> :
            q \in {c \in V.patient_sessions :
                      \E segment \in Range(consecutive_segments) :
                          \E window_blocks \in WindowsOf(segment) : c[5] \in window_blocks}}
    \cup {<<"therapist_one_session", q[1]>> :
            q \in {c \in V.staffing :
                      \E therapist \in Range(inst.therapists) : therapist.id = c[1]}}
    \cup {<<"room_one_session", k[2]>> : k \in V.session_active}

\* _session_capacity_constraints, each pair guarded by session_capacity|therapy
guarded_session_capacity(inst, V, L, x, s) ==
    \A k \in V.session_active :
        <<"session_capacity", k[1]>> \in L => session_capacity_at(inst, V, k, x, k \in s)

\* _staffing_requirements, guarded by staffing|therapy|specialty
guarded_staffing(inst, V, L, s, t) ==
    \A k \in V.session_active :
        \A specialty \in DOMAIN inst.therapies[k[1]].requirements :
            <<"staffing", k[1], specialty>> \in L =>
                staffing_requirements_at(inst, V, k, specialty, t, k \in s)

\* _patient_requirements, guarded by patient_requirement|patient|therapy
guarded_patient_requirements(inst, V, L, x) ==
    \A patient \in Range(inst.patients) :
        \A therapy_id \in DOMAIN patient.therapies :
            (/\ patient.therapies[therapy_id] >= 0
             /\ <<"patient_requirement", patient.id, therapy_id>> \in L) =>
                Cardinality({q \in x : q[1] = patient.id /\ q[2] = therapy_id})
                    = patient.therapies[therapy_id]

\* _patient_pinned_sessions, guarded by pinned_session|patient|therapy|day|block
guarded_pinned_sessions(inst, V, L, x) ==
    \A patient \in Range(inst.patients) :
        \A therapy_id \in DOMAIN patient.pinned_sessions :
            \A slot \in Range(patient.pinned_sessions[therapy_id]) :
                <<"pinned_session", patient.id, therapy_id, slot.day, slot.block>> \in L =>
                    Cardinality({q \in x : /\ q[1] = patient.id /\ q[2] = therapy_id
                                           /\ q[4] = slot.day /\ q[5] = slot.block}) = 1

\* the guarded fixed-therapist rule without the case of a missing staff variable
guarded_fixed_therapists_when_candidate(inst, V, L, x, t) ==
    \A patient \in Range(inst.patients) :
        \A therapy_id \in DOMAIN patient.fixed_therapists :
            \A specialty \in DOMAIN patient.fixed_therapists[therapy_id] :
                \A therapist_id \in
                        {id \in Range(patient.fixed_therapists[therapy_id][specialty]) :
                            id # ""} :
                    <<"fixed_therapist", patient.id, therapy_id, specialty, therapist_id>> \in L =>
                        \A q \in {c \in V.patient_sessions :
                                     c[1] = patient.id /\ c[2] = therapy_id} :
                            LET staff_key == <<therapist_id, therapy_id, q[3], q[4], q[5],
                                               specialty>>
                            IN  staff_key \in V.staffing => (q \in x => staff_key \in t)

\* _patient_fixed_therapists, guarded by fixed_therapist|patient|therapy|specialty|therapist
guarded_fixed_therapists(inst, V, L, x, t) ==
    \A patient \in Range(inst.patients) :
        \A therapy_id \in DOMAIN patient.fixed_therapists :
            \A specialty \in DOMAIN patient.fixed_therapists[therapy_id] :
                \A therapist_id \in
                        {id \in Range(patient.fixed_therapists[therapy_id][specialty]) :
                            id # ""} :
                    <<"fixed_therapist", patient.id, therapy_id, specialty, therapist_id>> \in L =>
                        \A q \in {c \in V.patient_sessions :
                                     c[1] = patient.id /\ c[2] = therapy_id} :
                            LET staff_key == <<therapist_id, therapy_id, q[3], q[4], q[5],
                                               specialty>>
                            IN  IF staff_key \in V.staffing
                                THEN q \in x => staff_key \in t
                                ELSE q \notin x

\* the guarded no-same-day rule left unenforced whatever its literal
guarded_no_same_day_unenforced(inst, V, L, x) == TRUE

\* _patient_no_same_day_therapies, guarded by no_same_day|patient|therapy
guarded_no_same_day(inst, V, L, x) ==
    \A patient \in Range(inst.patients) :
        \A therapy_id \in patient.no_same_day_therapies :
            <<"no_same_day", patient.id, therapy_id>> \in L =>
                \A day \in Days :
                    Cardinality({q \in x : q[1] = patient.id /\ q[4] = day
                                           /\ q[2] = therapy_id}) <= 1

\* _one_session_per_time, guarded by patient_one_session|patient
guarded_one_session_per_time(inst, V, L, x) ==
    \A patient \in Range(inst.patients) :
        <<"patient_one_session", patient.id>> \in L =>
            \A day \in Days : \A block \in BLOCKS :
                Cardinality({q \in x : q[1] = patient.id /\ q[4] = day
                                       /\ q[5] = block}) <= 1

\* _patient_continuous_hours_limit, guarded by patient_continuous|patient
guarded_continuous_hours(inst, V, L, x) ==
    \A patient \in Range(inst.patients) :
        <<"patient_continuous", patient.id>> \in L =>
            \A day \in Days :
                \A segment \in Range(consecutive_segments) :
                    \A window_blocks \in WindowsOf(segment) :
                        LET window_vars ==
                                {q \in V.patient_sessions :
                                    /\ q[1] = patient.id /\ q[4] = day
                                    /\ q[5] \in window_blocks}
                        IN  window_vars # {} =>
                                Cardinality(window_vars \cap x)
                                    <= patient.max_continuous_hours

\* _therapist_and_room_single_session, guarded by therapist_one_session|therapist
\* and room_one_session|room
guarded_single_session(inst, V, L, s, t) ==
    /\ \A therapist \in Range(inst.therapists) :
           <<"therapist_one_session", therapist.id>> \in L =>
               \A day \in Days : \A block \in BLOCKS :
                   Cardinality({q \in t : q[1] = therapist.id /\ q[4] = day
                                          /\ q[5] = block}) <= 1
    /\ \A room \in Range(inst.rooms) :
           <<"room_one_session", room.id>> \in L =>
               \A day \in Days : \A block \in BLOCKS :
                   Cardinality({k \in s : k[2] = room.id /\ k[3] = day
                                          /\ k[4] = block}) <= 1

\* the constraints of the assumption model on x alone, under the literals L
AssumptionSatisfiesPatients(inst, V, L, x) ==
    /\ guarded_patient_requirements(inst, V, L, x)
    /\ guarded_pinned_sessions(inst, V, L, x)
    /\ guarded_no_same_day(inst, V, L, x)
    /\ guarded_one_session_per_time(inst, V, L, x)
    /\ guarded_continuous_hours(inst, V, L, x)

\* every constraint of the assumption model on x, s and t, under the literals L
AssumptionSatisfies(inst, V, L, x, s, t) ==
    /\ \A q \in x : PatientLinked(q, s)
    /\ \A q \in t : StaffLinked(q, s)
    /\ AssumptionSatisfiesPatients(inst, V, L, x)
    /\ guarded_session_capacity(inst, V, L, x, s)
    /\ guarded_staffing(inst, V, L, s, t)
    /\ guarded_fixed_therapists(inst, V, L, x, t)
    /\ guarded_single_session(inst, V, L, s, t)

\* The assignments [x, s, t] satisfying the assumption model once
\* add_assumptions has set every registered literal true, enumerated family
\* by family as Solutions does for the primary model.
AssumptionSolutions(inst, V) ==
    LET L == AssumptionLabels(inst, V)
        xs == {x \in SUBSET V.patient_sessions : AssumptionSatisfiesPatients(inst, V, L, x)}
        candidates ==
            {k \in V.session_active :
                /\ ((\A q \in V.patient_sessions : SessionOfPatientKey(q) # k)
                        /\ <<"session_capacity", k[1]>> \in L)
                       => session_capacity_at(inst, V, k, {}, TRUE)
                /\ \A specialty \in DOMAIN inst.therapies[k[1]].requirements :
                       ((\A q \in V.staffing : ~(SessionOfStaffKey(q) = k /\ q[6] = specialty))
                            /\ <<"staffing", k[1], specialty>> \in L)
                           => staffing_requirements_at(inst, V, k, specialty, {}, TRUE)}
        ss(x) == {s \in SUBSET candidates :
                     /\ \A q \in x : PatientLinked(q, s)
                     /\ guarded_session_capacity(inst, V, L, x, s)}
        ts(x, s) == {t \in SUBSET {q \in V.staffing : StaffLinked(q, s)} :
                        AssumptionSatisfies(inst, V, L, x, s, t)}
    IN  UNION {UNION {{[x |-> x, s |-> s, t |-> t] : t \in ts(x, s)} : s \in ss(x)}
               : x \in xs}

\* Whether the assumption model has a solution under the literals L.  A
\* session without attending patient can be closed, with its staff, in any
\* solution; so it is enough to look at the solutions in which the open
\* sessions are those of the attended patient variables.
AssumptionFeasible(inst, V, L) ==
    \E x \in {c \in SUBSET V.patient_sessions :
                 AssumptionSatisfiesPatients(inst, V, L, c)} :
        LET s == {SessionOfPatientKey(q) : q \in x}
        IN  \E t \in SUBSET {q \in V.staffing : StaffLinked(q, s)} :
                AssumptionSatisfies(inst, V, L, x, s, t)

\* the elements of a set as a sequence, in one fixed order
RECURSIVE SetToSeq(_)
SetToSeq(S) ==
    IF S = {} THEN <<>>
    ELSE LET e == CHOOSE c \in S : TRUE IN <<e>> \o SetToSeq(S \ {e})

\* _assumption_for, lines 718-726: self.assumptions, the literal of every
\* label, numbered in the order of registration
assumptions(inst, V) ==
    LET labels == SetToSeq(AssumptionLabels(inst, V))
    IN  [label \in AssumptionLabels(inst, V) |->
            CHOOSE i \in DOMAIN labels : labels[i] = label]

\* self.assumption_index_to_label, filled by the same registrations
assumption_index_to_label(inst, V) ==
    LET labels == SetToSeq(AssumptionLabels(inst, V))
    IN  [i \in DOMAIN labels |-> labels[i]]

\* _label_for_literal, lines 782-786: a negated literal -i-1 stands for index i
label_for_literal(index_to_label, literal) ==
    LET index == IF literal < 0 THEN (0 - literal) - 1 ELSE literal
    IN  Get(index_to_label, index, <<>>)

\* _format_assumption_label: the message of one label
format_assumption_label(label) ==
    CASE label[1] = "fixed_therapist" ->
            <<"fixed_therapist", label[2], label[5], label[3], label[4]>>
      [] label[1] = "pinned_session" ->
            <<"pinned_session", label[2], label[3], label[4], block_to_range(label[5])>>
      [] OTHER -> label

MaxCoreDropped == 1    \* most labels a reported core leaves out

\* solver.sufficient_assumptions_for_infeasibility(): a set of labels under
\* which the assumption model has no solution
SufficientCores(inst, V) ==
    LET labels == AssumptionLabels(inst, V)
    IN  {L \in {labels \ D : D \in {c \in SUBSET labels : Cardinality(c) <= MaxCoreDropped}} :
            ~AssumptionFeasible(inst, V, L)}

\* _diagnose_with_assumptions: the lists it can return.  Which one depends on
\* the OR-Tools build (add_assumptions, sufficient_assumptions_for_infeasibility),
\* on whether the time limit stops the solve, and on the core the solver picks.
diagnose_with_assumptions(inst, V) ==
    LET labels == AssumptionLabels(inst, V)
        feasible == AssumptionFeasible(inst, V, labels)
    IN  IF labels = {} THEN {<< <<"no_assumptions">> >>}
        ELSE {<< <<"assumptions_unsupported">> >>}
             \cup {<< <<"assumption_status", status_name>> >> :
                      status_name \in {"UNKNOWN"}
                          \cup (IF feasible THEN {"OPTIMAL", "FEASIBLE"} ELSE {})}
             \cup (IF feasible THEN {}
                   ELSE {<< <<"core_unsupported">> >>}
                        \cup {IF core = {} THEN << <<"core_empty">> >>
                              ELSE LET literals == SetToSeq(core)
                                   IN  [i \in DOMAIN literals |->
                                           format_assumption_label(literals[i])]
                              : core \in SufficientCores(inst, V)})

----------------------------------------------------------------------------
(* model.py: the model built with diagnostic_mode "soft".  Requirements,   *)
(* no-same-day, capacity, staffing and fixed therapists get a slack; pins, *)
(* one-session-per-time, continuous hours and the single-session rules     *)
(* stay hard.  The objective is the sum of the slacks, so in an optimal    *)
(* solution every slack has the least value its constraint allows.         *)

Max(a, b) == IF a >= b THEN a ELSE b

\* slack_patient_requirements[(patient, therapy)]: sum + slack == required
slack_requirement(inst, x, pid, therapy_id, required) ==
    required - Cardinality({q \in x : q[1] = pid /\ q[2] = therapy_id})

\* slack_no_same_day[(patient, therapy, day)]: sum <= 1 + slack
slack_no_same_day(x, pid, therapy_id, day) ==
    Max(0, Cardinality({q \in x : q[1] = pid /\ q[2] = therapy_id /\ q[4] = day}) - 1)

\* slack_session_min[key]: total_patients + slack >= min_patients * session_var
slack_session_min(inst, x, s, k) ==
    Max(0, inst.therapies[k[1]].min_patients * Bit(k \in s)
               - Cardinality({q \in x : SessionOfPatientKey(q) = k}))

\* slack_session_max[key]: total_patients <= max_allowed + slack
slack_session_max(inst, x, k) ==
    Max(0, Cardinality({q \in x : SessionOfPatientKey(q) = k})
               - Min(inst.therapies[k[1]].max_patients, RoomById(inst, k[2]).capacity))

\* slack_staffing[(therapy, room, day, block, specialty)]:
\* sum(staff_vars) + slack >= required * session_var
slack_staffing(inst, s, t, k, specialty) ==
    Max(0, inst.therapies[k[1]].requirements[specialty] * Bit(k \in s)
               - Cardinality({q \in t : SessionOfStaffKey(q) = k /\ q[6] = specialty}))

\* the keys of slack_fixed_therapist
FixedBindings(inst, V) ==
    UNION {UNION {UNION {{<<patient.id, therapy_id, specialty, id>> :
                             id \in {i \in Range(patient.fixed_therapists[therapy_id][specialty]) :
                                        /\ i # ""
                                        /\ \E q \in V.patient_sessions :
                                               q[1] = patient.id /\ q[2] = therapy_id}}
                         : specialty \in DOMAIN patient.fixed_therapists[therapy_id]}
                  : therapy_id \in DOMAIN patient.fixed_therapists}
           : patient \in Range(inst.patients)}

\* sum of slack_fixed_therapist[binding]: assign_var <= staff_var + slack, or
\* assign_var <= slack where the therapist has no staffing variable
slack_fixed_total(x, t, binding) ==
    Cardinality({q \in x :
        /\ q[1] = binding[1] /\ q[2] = binding[2]
        /\ <<binding[4], binding[2], q[3], q[4], q[5], binding[3]>> \notin t})

\* the constraints of the soft model on x that carry no slack, and the
\* domains of the slacks (0..required, 0..max_allowed)
SoftSatisfiesPatients(inst, V, x) ==
    /\ patient_pinned_sessions(inst, V, x)
    /\ one_session_per_time(inst, V, x)
    /\ patient_continuous_hours_limit(inst, V, x)
    /\ \A patient \in Range(inst.patients) :
           \A therapy_id \in DOMAIN patient.therapies :
               patient.therapies[therapy_id] >= 0 =>
                   slack_requirement(inst, x, patient.id, therapy_id,
                                     patient.therapies[therapy_id]) >= 0
    /\ \A k \in V.session_active :
           /\ Min(inst.therapies[k[1]].max_patients, RoomById(inst, k[2]).capacity) >= 0
           /\ slack_session_max(inst, x, k)
                  <= Min(inst.therapies[k[1]].max_patients, RoomById(inst, k[2]).capacity)

\* every constraint of the soft model that carries no slack
SoftSatisfies(inst, V, x, s, t) ==
    /\ \A q \in x : PatientLinked(q, s)
    /\ \A q \in t : StaffLinked(q, s)
    /\ SoftSatisfiesPatients(inst, V, x)
    /\ therapist_and_room_single_session(inst, V, s, t)

----------------------------------------------------------------------------
(* model.py: _diagnose_infeasibility, the structural precheck.  A message  *)
(* is the tuple of the f-string's template name and interpolated values.   *)

\* the concatenation of a sequence of sequences
RECURSIVE Concat(_)
Concat(seqs) == IF seqs = <<>> THEN <<>> ELSE Head(seqs) \o Concat(Tail(seqs))

\* the keys of a dict in iteration order; instances insert keys in ascending order
DictKeys(f) == SortedByKey({<< <<CodePoints[k]>>, k >> : k \in DOMAIN f})

\* rooms_by_therapy.get(therapy_id, [])
rooms_by_therapy(inst, therapy_id) ==
    {room.id : room \in {r \in Range(inst.rooms) : therapy_id \in r.therapies}}

\* required_patients_by_therapy.get(therapy_id, 0)
required_patients_by_therapy(inst, therapy_id) ==
    Cardinality({patient \in Range(inst.patients) :
                    Get(patient.therapies, therapy_id, 0) > 0})

\* therapy_slots_total.get((pid, tid), 0)
therapy_slots_total(V, pid, tid) ==
    Cardinality({q \in V.patient_sessions : q[1] = pid /\ q[2] = tid})

\* therapy_slots_by_day.get((pid, tid, day), 0)
therapy_slots_by_day(V, pid, tid, day) ==
    Cardinality({q \in V.patient_sessions : q[1] = pid /\ q[2] = tid /\ q[4] = day})

\* therapy_global_slots.get(tid, 0)
therapy_global_slots(V, tid) ==
    Cardinality({q \in V.patient_sessions : q[2] = tid})

\* staff_slots.get((therapy_id, specialty), 0)
staff_slots(V, therapy_id, specialty) ==
    Cardinality({q \in V.staffing : q[2] = therapy_id /\ q[6] = specialty})

\* has_slot decided by the patient's variables alone
FixedHasSlot_patient_only(V, pid, therapy_id, specialty, therapist_id) ==
    \E q \in V.patient_sessions : q[1] = pid /\ q[2] = therapy_id

\* has_slot of lines 982-995: a patient variable of (patient, therapy) whose
\* room, day and block carry a staffing variable of the therapist and specialty
FixedHasSlot(V, pid, therapy_id, specialty, therapist_id) ==
    \E q \in V.patient_sessions :
        /\ q[1] = pid /\ q[2] = therapy_id
        /\ <<therapist_id, therapy_id, q[3], q[4], q[5], specialty>> \in V.staffing

\* lines 971-1000: the messages of one fixed therapist id
FixedTherapistMessages(inst, V, patient, therapy_id, specialty, therapist_id) ==
    IF ~\E therapist \in Range(inst.therapists) : therapist.id = therapist_id
    THEN << <<"fixed_unknown_therapist", patient.id, therapist_id, therapy_id>> >>
    ELSE IF specialty \notin
                (CHOOSE therapist \in Range(inst.therapists) :
                     therapist.id = therapist_id).specialties
    THEN << <<"fixed_lacks_specialty", therapist_id, specialty, patient.id, therapy_id>> >>
    ELSE IF ~FixedHasSlot(V, patient.id, therapy_id, specialty, therapist_id)
    THEN << <<"fixed_no_common_slot", patient.id, therapist_id, therapy_id, specialty>> >>
    ELSE <<>>

\* lines 946-1000: the messages of one fixed_therapists[therapy][specialty] list
FixedSpecialtyMessages(inst, V, patient, therapy_id, specialty) ==
    LET ids == SelectSeq(patient.fixed_therapists[therapy_id][specialty],
                         LAMBDA id : id # "")
        required_count == Get(inst.therapies[therapy_id].requirements, specialty, 0)
    IN  IF ids = <<>> THEN <<>>
        ELSE IF required_count = 0
        THEN << <<"fixed_not_required", patient.id, specialty, therapy_id>> >>
        ELSE (IF Len(ids) > required_count
              THEN << <<"fixed_too_many", patient.id, Len(ids), specialty, therapy_id,
                        required_count>> >>
              ELSE <<>>)
             \o (IF Cardinality(Range(ids)) # Len(ids)
                 THEN << <<"fixed_repeats", patient.id, therapy_id, specialty>> >>
                 ELSE <<>>)
             \o Concat([i \in DOMAIN ids |->
                    FixedTherapistMessages(inst, V, patient, therapy_id, specialty, ids[i])])

\* lines 935-1000: the messages of one patient's fixed_therapists
FixedMessages(inst, V, patient) ==
    LET keys == DictKeys(patient.fixed_therapists)
    IN  Concat([i \in DOMAIN keys |->
            IF DOMAIN patient.fixed_therapists[keys[i]] = {} THEN <<>>
            ELSE IF keys[i] \notin DOMAIN inst.therapies
            THEN << <<"fixed_unknown_therapy", patient.id, keys[i]>> >>
            ELSE LET specialties == DictKeys(patient.fixed_therapists[keys[i]])
                 IN  Concat([j \in DOMAIN specialties |->
                        FixedSpecialtyMessages(inst, V, patient, keys[i], specialties[j])])])

\* lines 1002-1016: the messages of one patient's pinned_sessions
PinMessages(inst, V, patient) ==
    LET keys == DictKeys(patient.pinned_sessions)
    IN  Concat([i \in DOMAIN keys |->
            Concat([j \in DOMAIN patient.pinned_sessions[keys[i]] |->
                LET slot == patient.pinned_sessions[keys[i]][j]
                    has_slot == \E q \in V.patient_sessions :
                                    /\ q[1] = patient.id /\ q[2] = keys[i]
                                    /\ q[4] = slot.day /\ q[5] = slot.block
                IN  IF has_slot THEN <<>>
                    ELSE << <<"pin_no_slot", patient.id, keys[i], slot.day,
                              block_to_range(slot.block)>> >>])])

\* ", ".join(f"{d}:{c}" for d, c in day_counts.items() if c > 0) or "none"
available_days(V, pid, therapy_id) ==
    LET day_counts == [i \in DOMAIN DAY_ORDER |->
                          <<DAY_ORDER[i], therapy_slots_by_day(V, pid, therapy_id, DAY_ORDER[i])>>]
        positive == SelectSeq(day_counts, LAMBDA dc : dc[2] > 0)
    IN  positive    \* the empty breakdown is rendered "none"

\* the week cap taken to be the number of candidate slots
max_per_week_total_slots(V, pid, therapy_id) == therapy_slots_total(V, pid, therapy_id)

\* sum(min(1, therapy_slots_by_day.get((patient.id, therapy_id, day), 0)) for day in DAY_ORDER)
max_per_week_with_rule(V, pid, therapy_id) ==
    Cardinality({day \in Days : therapy_slots_by_day(V, pid, therapy_id, day) > 0})

\* the requirement messages with the shortfall reported for every shortfall
RequirementMessages_always_shortfall(inst, V, patient, therapy_id) ==
    LET required == patient.therapies[therapy_id]
        total_slots == therapy_slots_total(V, patient.id, therapy_id)
    IN  IF required > 0 /\ total_slots < required
        THEN << <<"shortfall", patient.id, required, therapy_id, total_slots,
                  available_days(V, patient.id, therapy_id)>> >>
        ELSE <<>>

\* lines 1019-1063: the messages of one (patient, therapy) requirement
RequirementMessages(inst, V, patient, therapy_id) ==
    LET required == patient.therapies[therapy_id]
        rooms_for_therapy == rooms_by_therapy(inst, therapy_id)
        availability_blocks ==
            Cardinality(UNION {{<<day, b>> : b \in patient.availability[day]} :
                                  day \in DOMAIN patient.availability})
        total_slots == therapy_slots_total(V, patient.id, therapy_id)
    IN  IF required <= 0 THEN <<>>
        ELSE IF total_slots < required
        THEN (IF total_slots = 0 /\ rooms_for_therapy = {}
              THEN << <<"no_rooms", patient.id, therapy_id>> >> ELSE <<>>)
             \o (IF total_slots = 0 /\ availability_blocks = 0
                 THEN << <<"no_availability", patient.id, therapy_id>> >> ELSE <<>>)
             \o (IF total_slots > 0 \/ (rooms_for_therapy # {} /\ availability_blocks > 0)
                 THEN << <<"shortfall", patient.id, required, therapy_id, total_slots,
                           available_days(V, patient.id, therapy_id)>> >>
                 ELSE <<>>)
        ELSE IF /\ therapy_id \in patient.no_same_day_therapies
                /\ max_per_week_with_rule(V, patient.id, therapy_id) < required
        THEN << <<"no_same_day_cap", patient.id, therapy_id,
                  max_per_week_with_rule(V, patient.id, therapy_id), required>> >>
        ELSE <<>>

\* lines 1065-1082: the messages of one therapy
TherapyMessages(inst, V, therapy_id) ==
    LET specialties == DictKeys(inst.therapies[therapy_id].requirements)
    IN  IF rooms_by_therapy(inst, therapy_id) = {}
        THEN << <<"therapy_no_room", therapy_id>> >>
        ELSE (IF /\ therapy_global_slots(V, therapy_id) = 0
                 /\ required_patients_by_therapy(inst, therapy_id) > 0
              THEN << <<"therapy_no_slots", therapy_id>> >> ELSE <<>>)
             \o Concat([j \in DOMAIN specialties |->
                    IF staff_slots(V, therapy_id, specialties[j]) = 0
                    THEN << <<"no_staff_slots", therapy_id, specialties[j]>> >>
                    ELSE <<>>])

\* _diagnose_infeasibility: the list of messages it returns
diagnose_infeasibility(inst, V) ==
    LET therapy_ids == DictKeys(inst.therapies)
        messages ==
            Concat([i \in DOMAIN inst.patients |-> FixedMessages(inst, V, inst.patients[i])])
            \o Concat([i \in DOMAIN inst.patients |-> PinMessages(inst, V, inst.patients[i])])
            \o Concat([i \in DOMAIN inst.patients |->
                   LET keys == DictKeys(inst.patients[i].therapies)
                   IN  Concat([j \in DOMAIN keys |->
                           RequirementMessages(inst, V, inst.patients[i], keys[j])])])
            \o Concat([i \in DOMAIN therapy_ids |-> TherapyMessages(inst, V, therapy_ids[i])])
    IN  IF messages = <<>> THEN << <<"relax_constraints">> >> ELSE messages

----------------------------------------------------------------------------
(* model.py: _diagnose_with_soft_constraints and the messages it reads off *)
(* the slacks, in the insertion order of the slack dicts.                  *)

\* the position of a room in instance.rooms
RoomIndex(inst, room_id) == CHOOSE i \in DOMAIN inst.rooms : inst.rooms[i].id = room_id

\* the keys of session_active found in `keys`, in creation order: therapy,
\* room, day, block
SessionKeySeq(inst, keys) ==
    SortedByKey({<< <<CodePoints[k[1]], <<RoomIndex(inst, k[2])>>,
                      <<DayIndex(k[3])>>, <<k[4]>> >>, k >> : k \in keys})

\* The assignments of the soft model that can be optimal, each slack at its
\* least value.  An open session without patients costs min_patients in
\* slack_session_min and lowers no other slack, so unless min_patients is 0
\* the open sessions are exactly the attended ones.
SoftSolutions(inst, V) ==
    LET xs == {x \in SUBSET V.patient_sessions : SoftSatisfiesPatients(inst, V, x)}
        free == {k \in V.session_active : inst.therapies[k[1]].min_patients <= 0}
        ss(x) == {s \in {{SessionOfPatientKey(q) : q \in x} \cup extra : extra \in SUBSET free} :
                     room_single_session(inst, V, s)}
        ts(s) == {t \in SUBSET {q \in V.staffing : StaffLinked(q, s)} :
                     therapist_single_session(inst, V, t)}
    IN  UNION {UNION {{[x |-> x, s |-> s, t |-> t] : t \in ts(s)} : s \in ss(x)}
               : x \in xs}

\* sum(f.values()) for a function f with values in Nat
RECURSIVE SumValues(_)
SumValues(f) ==
    IF DOMAIN f = {} THEN 0
    ELSE LET e == CHOOSE c \in DOMAIN f : TRUE
         IN  f[e] + SumValues([k \in DOMAIN f \ {e} |-> f[k]])

\* The objective of _add_soft_objective: the sum of all slacks.  The slacks
\* of a session that is not open are 0 and are left out of the sums.
soft_objective(inst, V, sol) ==
    LET requirement_keys ==
            UNION {{<<patient.id, therapy_id>> :
                       therapy_id \in {u \in DOMAIN patient.therapies : patient.therapies[u] >= 0}}
                   : patient \in Range(inst.patients)}
        nsd_keys ==
            UNION {{<<patient.id, therapy_id, day>> :
                       therapy_id \in patient.no_same_day_therapies, day \in Days}
                   : patient \in Range(inst.patients)}
        staffing_keys ==
            UNION {{<<k, specialty>> : specialty \in DOMAIN inst.therapies[k[1]].requirements}
                   : k \in sol.s}
        required(key) ==
            (CHOOSE patient \in Range(inst.patients) : patient.id = key[1]).therapies[key[2]]
    IN  SumValues([key \in requirement_keys |->
                      slack_requirement(inst, sol.x, key[1], key[2], required(key))])
        + SumValues([key \in nsd_keys |-> slack_no_same_day(sol.x, key[1], key[2], key[3])])
        + SumValues([key \in staffing_keys |->
                        slack_staffing(inst, sol.s, sol.t, key[1], key[2])])
        + SumValues([k \in sol.s |-> slack_session_min(inst, sol.x, sol.s, k)])
        + SumValues([k \in sol.s |-> slack_session_max(inst, sol.x, k)])
        + SumValues([binding \in FixedBindings(inst, V) |->
                        slack_fixed_total(sol.x, sol.t, binding)])

MessageLimit == 20

\* _limit_messages
limit_messages(messages) ==
    IF Len(messages) <= MessageLimit THEN messages
    ELSE SubSeq(messages, 1, MessageLimit) \o << <<"and_more", Len(messages) - MessageLimit>> >>

\* _soft_diagnostics_from_solver: one message per slack with a positive value
soft_diagnostics_from_solver(inst, V, sol) ==
    LET Entry(value, message) == IF value > 0 THEN <<message>> ELSE <<>>
        sessions == SessionKeySeq(inst, sol.s)    \* the slacks of the others are 0
        requirement_messages ==
            Concat([i \in DOMAIN inst.patients |->
                LET patient == inst.patients[i]
                    keys == DictKeys(patient.therapies)
                IN  Concat([j \in DOMAIN keys |->
                        IF patient.therapies[keys[j]] < 0 THEN <<>>
                        ELSE LET value == slack_requirement(inst, sol.x, patient.id, keys[j],
                                                            patient.therapies[keys[j]])
                             IN  Entry(value, <<"soft_missing", patient.id, value, keys[j]>>)])])
        no_same_day_messages ==
            Concat([i \in DOMAIN inst.patients |->
                LET patient == inst.patients[i]
                    keys == SortedByKey({<< <<CodePoints[u]>>, u >> :
                                            u \in patient.no_same_day_therapies})
                IN  Concat([j \in DOMAIN keys |->
                        Concat([d \in DOMAIN DAY_ORDER |->
                            LET value == slack_no_same_day(sol.x, patient.id, keys[j], DAY_ORDER[d])
                            IN  Entry(value, <<"soft_no_same_day", patient.id, value,
                                               keys[j], DAY_ORDER[d]>>)])])])
        session_min_messages ==
            Concat([i \in DOMAIN sessions |->
                LET k == sessions[i]
                    value == slack_session_min(inst, sol.x, sol.s, k)
                IN  Entry(value, <<"soft_short", k[1], k[2], k[3], block_to_range(k[4]), value>>)])
        session_max_messages ==
            Concat([i \in DOMAIN sessions |->
                LET k == sessions[i]
                    value == slack_session_max(inst, sol.x, k)
                IN  Entry(value, <<"soft_over_capacity", k[1], k[2], k[3],
                                   block_to_range(k[4]), value>>)])
        staffing_messages ==
            Concat([i \in DOMAIN sessions |->
                LET k == sessions[i]
                    keys == DictKeys(inst.therapies[k[1]].requirements)
                IN  Concat([j \in DOMAIN keys |->
                        LET value == slack_staffing(inst, sol.s, sol.t, k, keys[j])
                        IN  Entry(value, <<"soft_need_staff", value, keys[j], k[1], k[2],
                                           k[3], block_to_range(k[4])>>)])])
        fixed_messages ==
            Concat([i \in DOMAIN inst.patients |->
                LET patient == inst.patients[i]
                    therapy_ids == DictKeys(patient.fixed_therapists)
                IN  Concat([j \in DOMAIN therapy_ids |->
                        LET fixed == patient.fixed_therapists[therapy_ids[j]]
                            specialties == DictKeys(fixed)
                        IN  Concat([n \in DOMAIN specialties |->
                                LET ids == fixed[specialties[n]]
                                IN  Concat([m \in DOMAIN ids |->
                                        LET binding == <<patient.id, therapy_ids[j],
                                                         specialties[n], ids[m]>>
                                            total == IF binding \in FixedBindings(inst, V)
                                                     THEN slack_fixed_total(sol.x, sol.t, binding)
                                                     ELSE 0
                                        IN  Entry(total, <<"soft_fixed", patient.id, ids[m],
                                                           therapy_ids[j], specialties[n],
                                                           total>>)])])])])
    IN  limit_messages(requirement_messages \o no_same_day_messages \o session_min_messages
                       \o session_max_messages \o staffing_messages \o fixed_messages)

\* _diagnose_with_soft_constraints: the lists it can return.  The soft solve
\* ends OPTIMAL with a least total slack, or without a solution: UNKNOWN when
\* the time limit stops it, INFEASIBLE when a slack-free rule cannot be met.
diagnose_with_soft_constraints(inst, V) ==
    LET sols == SoftSolutions(inst, V)
        value == [sol \in sols |-> soft_objective(inst, V, sol)]
        best == {sol \in sols : \A other \in sols : value[sol] <= value[other]}
    IN  {<< <<"soft_status", "UNKNOWN">> >>}
        \cup (IF sols = {} THEN {<< <<"soft_status", "INFEASIBLE">> >>} ELSE {})
        \cup {soft_diagnostics_from_solver(inst, V, sol) : sol \in best}

----------------------------------------------------------------------------
(* model.py: _run_diagnostics and _flatten_diagnostics *)

\* _run_diagnostics: the three explainers, each run on the same instance
run_diagnostics(inst, V) ==
    {[assumptions |-> a, prechecks |-> diagnose_infeasibility(inst, V), soft |-> c] :
        a \in diagnose_with_assumptions(inst, V),
        c \in diagnose_with_soft_constraints(inst, V)}

\* the keys _flatten_diagnostics walks, with a wrong order for comparison
DiagnosticKeys_soft_first == <<"soft", "assumptions", "prechecks">>

DiagnosticKeys == <<"assumptions", "prechecks", "soft">>

\* _flatten_diagnostics: f"{key}: {item}" for every item, key by key
flatten_diagnostics(diagnostics) ==
    Concat([i \in DOMAIN DiagnosticKeys |->
        IF DiagnosticKeys[i] \in DOMAIN diagnostics
        THEN [j \in DOMAIN diagnostics[DiagnosticKeys[i]] |->
                 <<DiagnosticKeys[i], diagnostics[DiagnosticKeys[i]][j]>>]
        ELSE <<>>])

----------------------------------------------------------------------------
(* model.py: SchedulerModel.solve *)

\* sorted(patient_ids)
SortedPatientIds(ids) == SortedByKey({<< <<CodePoints[id]>>, id >> : id \in ids})

\* sorted(staff, key=lambda item: (item["specialty"], item["therapist_id"]))
SortedStaff(staff) ==
    SortedByKey({<< <<CodePoints[item.specialty], CodePoints[item.therapist_id]>>, item >>
                 : item \in staff})

\* the record appended for an active session key k (lines 175-208)
ScheduleRecord(V, sol, k) ==
    [therapy_id |-> k[1],
     room_id |-> k[2],
     day |-> k[3],
     time |-> block_to_range(k[4]),
     patient_ids |-> SortedPatientIds(
         {q[1] : q \in {c \in V.patient_sessions :
                           SessionOfPatientKey(c) = k /\ c \in sol.x}}),
     staff |-> SortedStaff(
         {[therapist_id |-> q[1], specialty |-> q[6]] :
             q \in {c \in V.staffing : SessionOfStaffKey(c) = k /\ c \in sol.t}})]

\* ScheduleSortKey with the time string ahead of the day index
ScheduleSortKey_time_first(item) ==
    << CodePoints[item.time], <<DayIndex(item.day)>>, CodePoints[item.room_id],
       CodePoints[item.therapy_id] >>

\* the key of schedule.sort (lines 209-216)
ScheduleSortKey(item) ==
    << <<DayIndex(item.day)>>, CodePoints[item.time], CodePoints[item.room_id],
       CodePoints[item.therapy_id] >>

\* the schedule list built from the solver's values (lines 171-216)
ExtractSchedule(V, sol) ==
    SortedByKey({<<ScheduleSortKey(item), item>> :
                    item \in {ScheduleRecord(V, sol, k) :
                                 k \in {c \in V.session_active : c \in sol.s}}})

\* the objective values the primary model can take: one per satisfying
\* assignment and choice of idle-gap variables
ObjectiveValues(inst, weights, V, sols) ==
    UNION {{objective(weights, patient_day_used(inst, V, sol.x), gaps) :
               gaps \in therapist_idle_gaps(inst, V, sol.t)} : sol \in sols}

\* solve() when the solver ends with a solution: OPTIMAL, or FEASIBLE when the
\* time limit stops the search before optimality is proved
SolveSuccess ==
    /\ pc = "ready"
    /\ \E V \in {build_base_variables(instance)} :
       \E sols \in {Solutions(instance, V)} :
       \E values \in {ObjectiveValues(instance, objective_weights, V, sols)} :
       \E sol \in {a \in sols : Satisfies(instance, V, a.x, a.s, a.t)} :
       \E gaps \in therapist_idle_gaps(instance, V, sol.t) :
       \E value \in {objective(objective_weights,
                               patient_day_used(instance, V, sol.x), gaps)} :
       \E status_name \in {"OPTIMAL", "FEASIBLE"} :
           /\ status_name = "OPTIMAL" => \A other \in values : value <= other
           /\ session_active' = V.session_active
           /\ patient_sessions' = V.patient_sessions
           /\ staffing' = V.staffing
           /\ result' = [status |-> status_name,
                         objective_value |-> value,
                         schedule |-> ExtractSchedule(V, sol),
                         diagnostics |-> <<>>,
                         diagnostics_by_method |-> <<>>]
    /\ pc' = "solved"
    /\ UNCHANGED <<instance, objective_weights, guard_raised, document, load_error>>
    /\ UNCHANGED api_vars

\* solve() when the solver ends without a solution: INFEASIBLE when none
\* exists, UNKNOWN when the time limit stops the search before one is found.
\* The schedule stays empty; the diagnostics of this branch are built by
\* _run_diagnostics.
SolveFailure ==
    /\ pc = "ready"
    /\ \E V \in {build_base_variables(instance)} :
       \E sols \in {Solutions(instance, V)} :
       \E diagnostics_by_method \in run_diagnostics(instance, V) :
       \E status_name \in {"INFEASIBLE", "UNKNOWN"} :
           /\ status_name = "INFEASIBLE" => sols = {}
           /\ session_active' = V.session_active
           /\ patient_sessions' = V.patient_sessions
           /\ staffing' = V.staffing
           /\ result' = [status |-> status_name,
                         objective_value |-> 0,
                         schedule |-> <<>>,
                         diagnostics |-> flatten_diagnostics(diagnostics_by_method),
                         diagnostics_by_method |-> diagnostics_by_method]
    /\ pc' = "solved"
    /\ UNCHANGED <<instance, objective_weights, guard_raised, document, load_error>>
    /\ UNCHANGED api_vars

----------------------------------------------------------------------------
(* api.py: the guard run_solver_endpoint applies to the solved schedule *)

\* room_therapies.get(item["room_id"], set())
RoomTherapies(inst, room_id) ==
    IF \E room \in Range(inst.rooms) : room.id = room_id
    THEN RoomById(inst, room_id).therapies
    ELSE {}

\* whether validate_schedule raises: some record's therapy is not allowed in its room
ScheduleInvalid(schedule, inst) ==
    \E i \in DOMAIN schedule :
        schedule[i].therapy_id \notin RoomTherapies(inst, schedule[i].room_id)

validate_schedule ==
    /\ pc = "solved"
    /\ guard_raised' = ScheduleInvalid(result.schedule, instance)
    /\ pc' = "validated"
    /\ UNCHANGED <<instance, objective_weights, session_active, patient_sessions,
                   staffing, result, document, load_error>>
    /\ UNCHANGED api_vars

----------------------------------------------------------------------------
(* data_loader.py: load_instance.  The JSON document is a record; a list   *)
(* is a sequence, a dict a function.  A step that raises ValueError yields *)
(* the name of the failed check, "" meaning no error.                      *)

\* the first error of a sequence of errors, "" if there is none
FirstError(errors) == IF errors = <<>> THEN "" ELSE Head(errors)

\* _parse_pinned_sessions: slots without a day or a time are skipped, the
\* time of the others goes through range_to_block
parse_pinned_sessions(raw) ==
    LET Kept(therapy_id) ==
            SelectSeq(raw[therapy_id], LAMBDA slot : slot.day # "" /\ slot.time # "")
        kept_ids == {therapy_id \in DOMAIN raw : Kept(therapy_id) # <<>>}
    IN  IF \E therapy_id \in kept_ids :
               \E i \in DOMAIN Kept(therapy_id) :
                   range_to_block(Kept(therapy_id)[i].time).error
        THEN [error |-> "unknown_time_range", value |-> <<>>]
        ELSE [error |-> "",
              value |-> [therapy_id \in kept_ids |->
                            [i \in DOMAIN Kept(therapy_id) |->
                                PinnedSession(Kept(therapy_id)[i].day,
                                              range_to_block(Kept(therapy_id)[i].time).value)]]]

\* _parse_fixed_therapists, lines 290-309: empty ids, empty lists and empty
\* mappings are dropped.  The statements after its return never run.
parse_fixed_therapists(raw) ==
    LET Ids(therapy_id, specialty) ==
            SelectSeq(raw[therapy_id][specialty], LAMBDA id : id # "")
        Normalized(therapy_id) ==
            [specialty \in {sp \in DOMAIN raw[therapy_id] : Ids(therapy_id, sp) # <<>>} |->
                Ids(therapy_id, specialty)]
    IN  [therapy_id \in {u \in DOMAIN raw : DOMAIN Normalized(u) # {}} |->
            Normalized(therapy_id)]

\* _validate_instance, lines 185-219: the first failed check of one
\* fixed_therapists[therapy_id][specialty] entry
validate_fixed_entry(therapists, therapies, therapy_id, specialty, ids) ==
    LET requirements == therapies[therapy_id].requirements
        Errors(id) ==
            IF id \notin {t.id : t \in Range(therapists)} THEN <<"fixed_unknown_therapist">>
            ELSE IF specialty \notin
                        (CHOOSE t \in Range(therapists) : t.id = id).specialties
                 THEN <<"fixed_lacks_specialty">>
                 ELSE <<>>
    IN  IF specialty \notin DOMAIN requirements THEN <<"fixed_specialty_not_required">>
        ELSE IF Len(ids) > requirements[specialty] THEN <<"fixed_too_many">>
        ELSE IF Cardinality(Range(ids)) # Len(ids) THEN <<"fixed_repeats">>
        ELSE Concat([i \in DOMAIN ids |-> Errors(ids[i])])

\* the fixed-therapist checks cut down to the test of the therapy id
validate_fixed_therapy_only(therapists, therapies, patient) ==
    Concat([i \in DOMAIN DictKeys(patient.fixed_therapists) |->
        LET therapy_id == DictKeys(patient.fixed_therapists)[i]
        IN  IF therapy_id \notin DOMAIN therapies THEN <<"fixed_unknown_therapy">>
            ELSE <<>>])

\* _validate_instance, lines 185-219, for one patient
validate_fixed(therapists, therapies, patient) ==
    Concat([i \in DOMAIN DictKeys(patient.fixed_therapists) |->
        LET therapy_id == DictKeys(patient.fixed_therapists)[i]
            fixed == patient.fixed_therapists[therapy_id]
        IN  IF therapy_id \notin DOMAIN therapies THEN <<"fixed_unknown_therapy">>
            ELSE Concat([j \in DOMAIN DictKeys(fixed) |->
                     validate_fixed_entry(therapists, therapies, therapy_id,
                                          DictKeys(fixed)[j], fixed[DictKeys(fixed)[j]])])])

\* _validate_instance, lines 221-265, for one patient
validate_patient(therapies, patient) ==
    LET PinErrors(therapy_id) ==
            LET slots == patient.pinned_sessions[therapy_id]
                required == Get(patient.therapies, therapy_id, 0)
            IN  IF therapy_id \notin DOMAIN therapies THEN <<"pin_unknown_therapy">>
                ELSE IF required <= 0 THEN <<"pin_requires_none">>
                ELSE IF Len(slots) > required THEN <<"pin_too_many">>
                ELSE Concat([i \in DOMAIN slots |->
                         IF slots[i].day \notin Days THEN <<"pin_invalid_day">>
                         ELSE IF slots[i].block \notin BLOCKS THEN <<"pin_invalid_block">>
                         ELSE IF \E j \in 1..(i - 1) : slots[j] = slots[i]
                              THEN <<"pin_repeated">>
                              ELSE <<>>])
    IN  Concat([i \in DOMAIN DictKeys(patient.therapies) |->
            LET therapy_id == DictKeys(patient.therapies)[i]
            IN  IF therapy_id \notin DOMAIN therapies THEN <<"patient_unknown_therapy">>
                ELSE IF patient.therapies[therapy_id] < 0 THEN <<"negative_requirement">>
                ELSE <<>>])
        \o (IF patient.no_same_day_therapies \subseteq DOMAIN therapies THEN <<>>
            ELSE <<"no_same_day_unknown_therapy">>)
        \o Concat([i \in DOMAIN DictKeys(patient.pinned_sessions) |->
               PinErrors(DictKeys(patient.pinned_sessions)[i])])

\* _validate_instance, lines 144-265: the check that raises, "" if none does.
\* The rooms are read for their ids only.
validate_instance(therapists, patients, rooms, specialties, therapies) ==
    LET Unique(items) == Cardinality({item.id : item \in Range(items)}) = Len(items)
        therapy_ids == DictKeys(therapies)
        TherapyErrors(therapy_id) ==
            LET info == therapies[therapy_id]
            IN  IF info.min_patients < 1 \/ info.max_patients < info.min_patients
                THEN <<"invalid_patient_bounds">>
                ELSE IF DOMAIN info.requirements = {} THEN <<"no_required_specialties">>
                ELSE IF ~(DOMAIN info.requirements \subseteq specialties)
                     THEN <<"therapy_unknown_specialty">>
                ELSE IF \E sp \in DOMAIN info.requirements : info.requirements[sp] <= 0
                     THEN <<"non_positive_count">>
                     ELSE <<>>
    IN  FirstError(
            (IF Unique(therapists) THEN <<>> ELSE <<"therapist_ids_not_unique">>)
            \o (IF Unique(patients) THEN <<>> ELSE <<"patient_ids_not_unique">>)
            \o (IF Unique(rooms) THEN <<>> ELSE <<"room_ids_not_unique">>)
            \o (IF \A t \in Range(therapists) : t.specialties \subseteq specialties
                THEN <<>> ELSE <<"therapist_unknown_specialty">>)
            \o Concat([i \in DOMAIN therapy_ids |-> TherapyErrors(therapy_ids[i])])
            \o Concat([i \in DOMAIN patients |-> validate_fixed(therapists, therapies, patients[i])])
            \o Concat([i \in DOMAIN patients |-> validate_patient(therapies, patients[i])]))

\* load_instance, lines 58-141: the Instance built from the document, or the
\* error of the first step that raises
LoadInstance(doc) ==
    LET therapies ==
            [therapy_id \in DOMAIN doc.therapies |->
                TherapyInfo(doc.therapies[therapy_id].requirements,
                            doc.therapies[therapy_id].min_patients,
                            doc.therapies[therapy_id].max_patients)]
        TherapistErrors(raw) ==
            IF availability_to_blocks_per_day(raw.availability).error
            THEN <<"invalid_interval">> ELSE <<>>
        PatientErrors(raw) ==
            (IF availability_to_blocks_per_day(raw.availability).error
             THEN <<"invalid_interval">> ELSE <<>>)
            \o (IF parse_pinned_sessions(raw.pinned_sessions).error # ""
                THEN <<parse_pinned_sessions(raw.pinned_sessions).error>> ELSE <<>>)
        parse_error ==
            FirstError(Concat([i \in DOMAIN doc.therapists |-> TherapistErrors(doc.therapists[i])])
                       \o Concat([i \in DOMAIN doc.patients |-> PatientErrors(doc.patients[i])]))
        therapists ==
            [i \in DOMAIN doc.therapists |->
                Therapist(doc.therapists[i].id, Range(doc.therapists[i].specialties),
                          availability_to_blocks_per_day(doc.therapists[i].availability).value)]
        patients ==
            [i \in DOMAIN doc.patients |->
                Patient(doc.patients[i].id, doc.patients[i].therapies,
                        availability_to_blocks_per_day(doc.patients[i].availability).value,
                        doc.patients[i].max_continuous_hours,
                        Range(doc.patients[i].no_same_day_therapies),
                        parse_fixed_therapists(doc.patients[i].fixed_therapists),
                        parse_pinned_sessions(doc.patients[i].pinned_sessions).value)]
        rooms ==
            [i \in DOMAIN doc.rooms |->
                Room(doc.rooms[i].id, Range(doc.rooms[i].therapies), doc.rooms[i].capacity)]
        specialties == Range(doc.specialties)
    IN  IF parse_error # "" THEN [error |-> parse_error, instance |-> <<>>]
        ELSE [error |-> validate_instance(therapists, patients, rooms, specialties, therapies),
              instance |-> Instance(therapists, patients, rooms, specialties, therapies)]

\* load_instance(path) on the document read from the file
load_instance ==
    /\ pc = "load"
    /\ \E outcome \in {LoadInstance(document)} :
           /\ load_error' = outcome.error
           /\ instance' = IF outcome.error = "" THEN outcome.instance ELSE instance
           /\ pc' = IF outcome.error = "" THEN "loaded" ELSE "raised"
    /\ UNCHANGED <<document, objective_weights, session_active, patient_sessions,
                   staffing, result, guard_raised>>
    /\ UNCHANGED api_vars

----------------------------------------------------------------------------
(* The instances explored.  Each is an Instance that _validate_instance    *)
(* accepts, but for UnvalidatedFixedInstances, which payload_to_instance   *)
(* (api.py) builds from a request without validating it.                   *)

MaxRequired == 2      \* largest required session count of a patient/therapy pair
MaxCapacity == 2      \* largest room capacity and therapy max_patients

\* availability_to_blocks_per_day of intervals covering exactly these (day, block) slots
AvailabilityOf(slots) ==
    [day \in {sl[1] : sl \in slots} |-> {sl[2] : sl \in {c \in slots : c[1] = day}}]

NoPins == <<>>
NoFixed == <<>>

\* One therapy, one room, two patients: required counts, capacity band,
\* pins (inside and outside the stated availability) and no-same-day.
AttendanceInstances ==
    {Instance(
        <<Therapist("T1", {"lang"},
                    AvailabilityOf({<<"Monday", 0>>, <<"Monday", 1>>,
                                    <<"Tuesday", 0>>, <<"Tuesday", 3>>}))>>,
        <<Patient("P1", [speech |-> c.n1], AvailabilityOf(c.avail), 3, c.nsd,
                  NoFixed, c.pins),
          Patient("P2", [speech |-> c.n2], AvailabilityOf({<<"Monday", 0>>}), 3, {},
                  NoFixed, NoPins)>>,
        <<Room("R1", {"speech"}, c.capacity)>>,
        {"lang"},
        [speech |-> TherapyInfo([lang |-> 1], c.band[1], c.band[2])]) :
     c \in {c \in [n1 : 0..MaxRequired,
                   n2 : 0..1,
                   avail : {{<<"Monday", 0>>, <<"Monday", 1>>},
                            {<<"Monday", 0>>, <<"Monday", 1>>, <<"Tuesday", 0>>}},
                   nsd : {{}, {"speech"}},
                   pins : {NoPins,
                           [speech |-> <<PinnedSession("Monday", 1)>>],
                           [speech |-> <<PinnedSession("Tuesday", 3)>>]},
                   capacity : 0..MaxCapacity,
                   band : {b \in (1..MaxCapacity) \X (1..MaxCapacity) : b[1] <= b[2]}] :
              c.pins # NoPins => c.n1 >= 1}}

MaxContinuous == 2    \* largest max_continuous_hours of a patient

Monday01 == {<<"Monday", 0>>, <<"Monday", 1>>}

\* Two therapies in two rooms, three therapists: exact staffing per
\* specialty, a therapist holding two specialties, therapists out of reach,
\* fixed therapists.
StaffingInstances ==
    {Instance(
        <<Therapist("T1", {"lang", "motor"}, AvailabilityOf(Monday01)),
          Therapist("T2", {"lang"}, AvailabilityOf(c.t2avail)),
          Therapist("T3", {"motor"}, AvailabilityOf({<<"Monday", 0>>}))>>,
        <<Patient("P1", [speech |-> 1], AvailabilityOf(Monday01), 3, {},
                  c.fixed1, NoPins),
          Patient("P2", [group |-> c.n2], AvailabilityOf({<<"Monday", 0>>}), 3, {},
                  c.fixed2, NoPins)>>,
        <<Room("R1", {"speech"}, 2), Room("R2", {"group"}, 2)>>,
        {"lang", "motor"},
        [speech |-> TherapyInfo([lang |-> c.k], 1, 2),
         group |-> TherapyInfo([lang |-> 1, motor |-> 1], 1, 2)]) :
     c \in {c \in [t2avail : {{<<"Monday", 0>>}, Monday01, {<<"Tuesday", 0>>}},
                   k : 1..2,
                   n2 : 0..1,
                   fixed1 : {NoFixed,
                             [speech |-> [lang |-> <<"T1">>]],
                             [speech |-> [lang |-> <<"T2">>]],
                             [speech |-> [lang |-> <<"T2", "T1">>]]},
                   fixed2 : {NoFixed, [group |-> [motor |-> <<"T3">>]],
                             [group |-> [motor |-> <<"T1">>]]}] :
              /\ c.fixed1 # NoFixed => Len(c.fixed1["speech"]["lang"]) <= c.k}}

\* Two therapies competing for rooms: a room closed to a therapy, a room
\* listing a therapy id that Therapies does not define, one patient with
\* the same slot open in two rooms.
RoomInstances ==
    {Instance(
        <<Therapist("T1", {"lang"}, AvailabilityOf(Monday01)),
          Therapist("T2", {"lang"}, AvailabilityOf(Monday01))>>,
        <<Patient("P1", [speech |-> c.n1], AvailabilityOf(c.avail), 3, {},
                  NoFixed, NoPins),
          Patient("P2", [group |-> 1], AvailabilityOf({<<"Monday", 0>>}), 3, {},
                  NoFixed, NoPins)>>,
        <<Room("R1", {"speech", "group"}, c.capacity), Room("R2", c.r2, 1)>>,
        {"lang"},
        [speech |-> TherapyInfo([lang |-> 1], 1, 2),
         group |-> TherapyInfo([lang |-> 1], 1, 2)]) :
     c \in [n1 : 1..MaxRequired,
            avail : {{<<"Monday", 0>>}, Monday01},
            capacity : 1..MaxCapacity,
            r2 : {{"speech"}, {"group"}, {"art"}, {"speech", "group"}}]}

\* One patient over the blocks of one day: the sliding windows of the
\* continuous-hours rule, on both sides of the lunch break.
WindowInstances ==
    {Instance(
        <<Therapist("T1", {"lang"},
                    AvailabilityOf({<<"Monday", b>> : b \in BLOCKS}))>>,
        <<Patient("P1", [speech |-> c.n1],
                  AvailabilityOf({<<"Monday", b>> : b \in c.blocks}),
                  c.limit, {}, NoFixed, NoPins)>>,
        <<Room("R1", {"speech"}, 1)>>,
        {"lang"},
        [speech |-> TherapyInfo([lang |-> 1], 1, 1)]) :
     c \in [n1 : 1..(MaxContinuous + 1),
            limit : 0..MaxContinuous,
            blocks : {{0, 3}, {1, 4}, {0, 4}, {4, 5}, {5, 8}, {3, 4, 5},
                      {0, 1, 2, 3, 4}, {5, 6, 7, 8}}]}

\* One patient against the structural prechecks: no availability at all,
\* fewer candidate slots or fewer days than required sessions, no room for
\* the therapy.
PrecheckInstances ==
    {Instance(
        <<Therapist("T1", {"lang"},
                    AvailabilityOf({<<"Monday", 0>>, <<"Monday", 1>>, <<"Tuesday", 0>>}))>>,
        <<Patient("P1", [speech |-> c.n1], AvailabilityOf(c.avail), 3, c.nsd,
                  NoFixed, NoPins)>>,
        <<Room("R1", c.r1, 1)>>,
        {"lang"},
        [speech |-> TherapyInfo([lang |-> 1], 1, 1),
         group |-> TherapyInfo([lang |-> 1], 1, 1)]) :
     c \in [n1 : 1..MaxRequired,
            avail : {{}, {<<"Monday", 0>>}, Monday01, {<<"Monday", 0>>, <<"Tuesday", 0>>}},
            nsd : {{}, {"speech"}},
            r1 : {{"speech"}, {"group"}}]}

\* Fixed-therapist bindings as a request can carry them: a therapist that
\* does not exist (T9), one without the specialty (T3), a specialty the
\* therapy does not require, a therapy that is not defined.
UnvalidatedFixedInstances ==
    {Instance(
        <<Therapist("T1", {"lang"}, AvailabilityOf(Monday01)),
          Therapist("T3", {"motor"}, AvailabilityOf(Monday01))>>,
        <<Patient("P1", [speech |-> 1], AvailabilityOf(avail), 3, {}, fixed, NoPins)>>,
        <<Room("R1", {"speech"}, 1)>>,
        {"lang", "motor"},
        [speech |-> TherapyInfo([lang |-> 1], 1, 1)]) :
     avail \in {{<<"Monday", 0>>}, {<<"Tuesday", 0>>}},
     fixed \in {[speech |-> [lang |-> <<"T9">>]],
                [speech |-> [lang |-> <<"T3">>]],
                [speech |-> [lang |-> <<"T1">>]],
                [speech |-> [lang |-> <<"T1", "T9">>]],
                [speech |-> [motor |-> <<"T3">>]],
                [art |-> [lang |-> <<"T1">>]]}}

MorningBlocks == 5    \* len(consecutive_segments()[0])

\* One patient over the whole morning with a limit of continuous hours one
\* or two below the length of the morning.
MorningInstances ==
    {Instance(
        <<Therapist("T1", {"lang"},
                    AvailabilityOf({<<"Monday", b>> : b \in BLOCKS}))>>,
        <<Patient("P1", [speech |-> c.n1],
                  AvailabilityOf({<<"Monday", b>> : b \in consecutive_segments[1][1]
                                                        ..consecutive_segments[1][MorningBlocks]}),
                  c.limit, {}, NoFixed, NoPins)>>,
        <<Room("R1", {"speech"}, 1)>>,
        {"lang"},
        [speech |-> TherapyInfo([lang |-> 1], 1, 1)]) :
     c \in [n1 : (MorningBlocks - 1)..MorningBlocks,
            limit : (MorningBlocks - 2)..(MorningBlocks - 1)]}

MaxWeight == 2        \* largest objective weight

\* One patient who can spread the sessions over one day or two, with a
\* therapist who can be left idle between two sessions.
ObjectiveInstances ==
    {Instance(
        <<Therapist("T1", {"lang"},
                    AvailabilityOf({<<"Monday", 0>>, <<"Monday", 1>>, <<"Monday", 2>>,
                                    <<"Tuesday", 0>>}))>>,
        <<Patient("P1", [speech |-> c.n1], AvailabilityOf(c.avail), 3, {},
                  NoFixed, NoPins)>>,
        <<Room("R1", {"speech"}, 1)>>,
        {"lang"},
        [speech |-> TherapyInfo([lang |-> 1], 1, 1)]) :
     c \in [n1 : 1..MaxRequired,
            avail : {Monday01 \cup {<<"Tuesday", 0>>},
                     {<<"Monday", 0>>, <<"Monday", 1>>, <<"Monday", 2>>},
                     {<<"Monday", 0>>, <<"Monday", 2>>, <<"Tuesday", 0>>}}]}

\* ObjectiveWeights(patient_days_weight, therapist_idle_gap_weight)
ObjectiveWeights(patient_days_weight, therapist_idle_gap_weight) ==
    [patient_days_weight |-> patient_days_weight,
     therapist_idle_gap_weight |-> therapist_idle_gap_weight]

\* One room and one session slot shared by two patients of the same
\* therapy, each with a fixed therapist of their own or none.
SharedSessionInstances ==
    {Instance(
        <<Therapist("T1", {"lang"}, AvailabilityOf(Monday01)),
          Therapist("T2", {"lang"}, AvailabilityOf({<<"Monday", 0>>}))>>,
        <<Patient("P1", [speech |-> 1], AvailabilityOf({<<"Monday", 0>>}), 3, {},
                  [speech |-> [lang |-> <<"T1">>]], NoPins),
          Patient("P2", [speech |-> 1], AvailabilityOf(avail), 3, {},
                  fixed2, NoPins)>>,
        <<Room("R1", {"speech"}, 2)>>,
        {"lang"},
        [speech |-> TherapyInfo([lang |-> 1], 1, 2)]) :
     avail \in {{<<"Monday", 0>>}, Monday01},
     fixed2 \in {NoFixed, [speech |-> [lang |-> <<"T1">>]],
                 [speech |-> [lang |-> <<"T2">>]]}}

Instances ==
    AttendanceInstances \cup StaffingInstances \cup RoomInstances \cup WindowInstances
        \cup PrecheckInstances \cup UnvalidatedFixedInstances \cup MorningInstances
        \cup SharedSessionInstances

\* the default weights on every instance, other weights on ObjectiveInstances
WeightedInstances ==
    {<<inst, ObjectiveWeights(1, 1)>> : inst \in Instances}
        \cup {<<inst, ObjectiveWeights(w[1], w[2])>> :
                 inst \in ObjectiveInstances, w \in (0..MaxWeight) \X (0..1)}

Init ==
    /\ pc = "ready"
    /\ \E c \in WeightedInstances :
           /\ instance = c[1]
           /\ objective_weights = c[2]
    /\ session_active = {}
    /\ patient_sessions = {}
    /\ staffing = {}
    /\ result = [status |-> "NONE", objective_value |-> 0, schedule |-> <<>>,
                 diagnostics |-> <<>>, diagnostics_by_method |-> <<>>]
    /\ guard_raised = FALSE
    /\ document = <<>>
    /\ load_error = ""
    /\ ApiIdle

Next == SolveSuccess \/ SolveFailure \/ validate_schedule

Spec == Init /\ [][Next]_vars

----------------------------------------------------------------------------
(* The documents explored by load_instance: one patient, one room, one     *)
(* therapy requiring `count` lang therapists.                              *)

\* api.py _parse_pinned_sessions, lines 147-195: the pins of one patient of
\* a request, or the check that raises
payload_parse_pinned_sessions(patient) ==
    LET raw == patient.pinned_sessions
        Kept(therapy_id) ==
            SelectSeq(raw[therapy_id], LAMBDA slot : slot.day # "" /\ slot.time # "")
        kept_ids == {therapy_id \in DOMAIN raw : Kept(therapy_id) # <<>>}
        kept_seq == SelectSeq(DictKeys(raw), LAMBDA therapy_id : therapy_id \in kept_ids)
        SlotErrors(therapy_id) ==
            Concat([i \in DOMAIN Kept(therapy_id) |->
                IF Kept(therapy_id)[i].day \notin Days THEN <<"pin_invalid_day">>
                ELSE IF range_to_block(Kept(therapy_id)[i].time).error
                     THEN <<"pin_invalid_time">>
                     ELSE <<>>])
        Parsed(therapy_id) ==
            [i \in DOMAIN Kept(therapy_id) |->
                PinnedSession(Kept(therapy_id)[i].day,
                              range_to_block(Kept(therapy_id)[i].time).value)]
        CountErrors(therapy_id) ==
            LET required == Get(patient.therapies, therapy_id, 0)
                slots == Parsed(therapy_id)
            IN  IF required <= 0 THEN <<"pin_requires_none">>
                ELSE IF Len(slots) > required THEN <<"pin_too_many">>
                ELSE IF \E i \in DOMAIN slots : \E j \in 1..(i - 1) : slots[j] = slots[i]
                     THEN <<"pin_repeated">>
                     ELSE <<>>
        slot_error == FirstError(Concat([i \in DOMAIN kept_seq |-> SlotErrors(kept_seq[i])]))
    IN  IF slot_error # "" THEN [error |-> slot_error, value |-> <<>>]
        ELSE [error |-> FirstError(Concat([i \in DOMAIN kept_seq |->
                                              CountErrors(kept_seq[i])])),
              value |-> [therapy_id \in kept_ids |-> Parsed(therapy_id)]]

\* api.py payload_to_instance, lines 198-246: the Instance built from the
\* entities of a request, or the ValueError of a time string or a pin.
\* _validate_instance is not called.
PayloadToInstance(payload) ==
    LET therapies ==
            [therapy_id \in DOMAIN payload.therapies |->
                TherapyInfo(payload.therapies[therapy_id].requirements,
                            payload.therapies[therapy_id].min_patients,
                            payload.therapies[therapy_id].max_patients)]
        TherapistErrors(raw) ==
            IF availability_to_blocks_per_day(raw.availability).error
            THEN <<"invalid_interval">> ELSE <<>>
        PatientErrors(raw) ==
            (IF availability_to_blocks_per_day(raw.availability).error
             THEN <<"invalid_interval">> ELSE <<>>)
            \o (IF payload_parse_pinned_sessions(raw).error # ""
                THEN <<payload_parse_pinned_sessions(raw).error>> ELSE <<>>)
        parse_error ==
            FirstError(Concat([i \in DOMAIN payload.therapists |->
                                  TherapistErrors(payload.therapists[i])])
                       \o Concat([i \in DOMAIN payload.patients |->
                                     PatientErrors(payload.patients[i])]))
        therapists ==
            [i \in DOMAIN payload.therapists |->
                Therapist(payload.therapists[i].id, Range(payload.therapists[i].specialties),
                          availability_to_blocks_per_day(payload.therapists[i].availability).value)]
        patients ==
            [i \in DOMAIN payload.patients |->
                Patient(payload.patients[i].id, payload.patients[i].therapies,
                        availability_to_blocks_per_day(payload.patients[i].availability).value,
                        IF payload.patients[i].max_continuous_hours = 0 THEN 3
                        ELSE payload.patients[i].max_continuous_hours,
                        Range(payload.patients[i].no_same_day_therapies),
                        payload.patients[i].fixed_therapists,
                        payload_parse_pinned_sessions(payload.patients[i]).value)]
        rooms ==
            [i \in DOMAIN payload.rooms |->
                Room(payload.rooms[i].id, Range(payload.rooms[i].therapies),
                     IF payload.rooms[i].capacity = 0 THEN 1 ELSE payload.rooms[i].capacity)]
    IN  IF parse_error # "" THEN [error |-> parse_error, instance |-> <<>>]
        ELSE [error |-> "",
              instance |-> Instance(therapists, patients, rooms,
                                    Range(payload.specialties), therapies)]

\* run_solver_endpoint, lines 405-424: the request is refused with status 400
\* when payload_to_instance raises, and its Instance goes to
\* SchedulerModel.solve otherwise
payload_to_instance ==
    /\ pc = "load"
    /\ \E outcome \in {PayloadToInstance(document)} :
           /\ load_error' = outcome.error
           /\ instance' = IF outcome.error = "" THEN outcome.instance ELSE instance
           /\ pc' = IF outcome.error = "" THEN "accepted" ELSE "refused"
    /\ UNCHANGED <<document, objective_weights, session_active, patient_sessions,
                   staffing, result, guard_raised>>
    /\ UNCHANGED api_vars

MaxIntervals == 2     \* most intervals in the availability list of a day

TimeStrings ==
    {"08:00-09:00", "12:00-13:00", "14:00-15:00", "08:00-12:00", "08:30-09:30",
     "13:00-14:00", "12:00-15:00", "8:00-9:00", "08:00", "0800-0900", "08:00-xx:00",
     "morning"}

Document(intervals, pinned_sessions, fixed_therapists, count, room_therapies, capacity) ==
    [specialties |-> <<"lang", "motor">>,
     therapies |-> [speech |-> [requirements |-> [lang |-> count],
                                min_patients |-> 1, max_patients |-> 2]],
     therapists |-> <<[id |-> "T1", specialties |-> <<"lang">>,
                       availability |-> [Monday |-> <<"08:00-12:00">>]],
                      [id |-> "T2", specialties |-> <<"motor">>,
                       availability |-> [Monday |-> <<"08:00-12:00">>]],
                      [id |-> "T3", specialties |-> <<"lang">>,
                       availability |-> [Monday |-> <<"08:00-12:00">>]]>>,
     patients |-> <<[id |-> "P1", therapies |-> [speech |-> 1],
                     availability |-> [Monday |-> intervals, Tuesday |-> <<>>],
                     max_continuous_hours |-> 3, no_same_day_therapies |-> <<>>,
                     fixed_therapists |-> fixed_therapists,
                     pinned_sessions |-> pinned_sessions]>>,
     rooms |-> <<[id |-> "R1", therapies |-> room_therapies, capacity |-> capacity]>>]

\* rooms: capacities around 1, allowed therapies known and unknown
RoomDocuments ==
    {Document(<<"08:00-12:00">>, <<>>, <<>>, 1, room_therapies, capacity) :
        room_therapies \in {<<"speech">>, <<"art">>, <<"speech", "art">>, <<>>},
        capacity \in (-1)..MaxCapacity}

\* fixed therapists: T1 and T3 hold lang, T2 holds motor, T9 does not exist
FixedDocuments ==
    {Document(<<"08:00-12:00">>, <<>>, [u \in {c.therapy_id} |-> [sp \in {c.specialty} |-> c.ids]],
              c.count, <<"speech">>, 1) :
        c \in [therapy_id : {"speech", "art"},
               specialty : {"lang", "motor"},
               ids : {<<"T1">>, <<"T2">>, <<"T9">>, <<"T1", "T1">>, <<"T1", "T3">>,
                      <<"T1", "T2">>, <<"">>, <<"T1", "T3", "T1">>},
               count : 1..2]}

\* time strings: the availability list of Monday and the time of one pin
TimeDocuments ==
    {Document(intervals, <<>>, <<>>, 1, <<"speech">>, 1) :
        intervals \in UNION {[1..n -> TimeStrings] : n \in 0..MaxIntervals}}
    \cup {Document(<<"08:00-12:00">>, [speech |-> <<[day |-> "Monday", time |-> time]>>],
                   <<>>, 1, <<"speech">>, 1) :
             time \in TimeStrings \cup {""}}

Documents == RoomDocuments \cup FixedDocuments \cup TimeDocuments

LoaderInit ==
    /\ pc = "load"
    /\ document \in Documents
    /\ load_error = ""
    /\ instance = <<>>
    /\ objective_weights = [patient_days_weight |-> 1, therapist_idle_gap_weight |-> 1]
    /\ session_active = {}
    /\ patient_sessions = {}
    /\ staffing = {}
    /\ result = [status |-> "NONE", objective_value |-> 0, schedule |-> <<>>,
                 diagnostics |-> <<>>, diagnostics_by_method |-> <<>>]
    /\ guard_raised = FALSE
    /\ ApiIdle

LoaderNext == load_instance \/ payload_to_instance

LoaderSpec == LoaderInit /\ [][LoaderNext]_vars

----------------------------------------------------------------------------
(* storage.py: keys, validate_id and list_prefix of the two backends.  A   *)
(* string is the sequence of its code points; a key is the sequence of    *)
(* the segments that "/" separates in it.                                  *)

U1 == <<117, 49>>                                        \* "u1"
U10 == <<117, 49, 48>>                                   \* "u10"
SESSIONS == <<115, 101, 115, 115, 105, 111, 110, 115>>   \* "sessions"
REQUEST_JSON == <<114, 101, 113, 117, 101, 115, 116, 46, 106, 115, 111, 110>>
SCHEDULE_JSON == <<115, 99, 104, 101, 100, 117, 108, 101, 46, 106, 115, 111, 110>>
SCHEDULE_XLSX == <<115, 99, 104, 101, 100, 117, 108, 101, 46, 120, 108, 115, 120>>
META_JSON == <<109, 101, 116, 97, 46, 106, 115, 111, 110>>
LATEST_JSON == <<108, 97, 116, 101, 115, 116, 46, 106, 115, 111, 110>>

\* the users that send requests: the id of one is a prefix of the other's
Users == {U1, U10}

\* uuid.uuid4().hex: an id no other request draws
uuid4_hex(i) == <<97, 48 + i>>

SessionIds == {uuid4_hex(i) : i \in Slots}

\* _ID_RE = ^[A-Za-z0-9_-]{1,64}$ : whether validate_id returns the value
validate_id(value) ==
    /\ Len(value) \in 1..64
    /\ \A n \in DOMAIN value :
           value[n] \in (48..57) \cup (65..90) \cup (97..122) \cup {95, 45}

\* session_prefix: f"sessions/{safe_user}/{safe_session}"
session_prefix(user_id, session_id) == <<SESSIONS, user_id, session_id>>

\* the string of a key: "/".join(segments)
RECURSIVE KeyString(_)
KeyString(key) ==
    IF key = <<>> THEN <<>>
    ELSE IF Len(key) = 1 THEN key[1]
    ELSE key[1] \o <<47>> \o KeyString(Tail(key))

\* str.startswith
StartsWith(text, prefix) ==
    Len(prefix) <= Len(text) /\ SubSeq(text, 1, Len(prefix)) = prefix

\* str.endswith
EndsWith(text, suffix) ==
    /\ Len(suffix) <= Len(text)
    /\ SubSeq(text, Len(text) - Len(suffix) + 1, Len(text)) = suffix

\* LocalStorage.list_prefix: the prefix itself when it is a file, else the
\* files below the directory root / prefix
LocalStorage_list_prefix(store, prefix) ==
    {key \in DOMAIN store : StartsWith(key, prefix)}

\* GCSStorage.list_prefix with an empty SCHEDULER_GCS_PREFIX: the blobs
\* whose name starts with the characters of the prefix
GCSStorage_list_prefix(store, prefix) ==
    {key \in DOMAIN store : StartsWith(KeyString(key), KeyString(prefix))}

\* storage.list_prefix of the backend in use
list_prefix(store, prefix) ==
    IF backend = "local" THEN LocalStorage_list_prefix(store, prefix)
    ELSE GCSStorage_list_prefix(store, prefix)

\* write_json / write_bytes
write(store, key, content) == (key :> content) @@ store

\* delete: no error when the key is absent
delete(store, key) == [k \in DOMAIN store \ {key} |-> store[k]]

\* The keys a loop over a listing can visit next.  list_blobs returns the
\* names in lexicographic order; the order of Path.rglob is the
\* directory's, so any of the keys can come next.
NextKeys(keys) ==
    IF backend = "local" THEN keys
    ELSE {key \in keys : \A other \in keys \ {key} : SeqLess(KeyString(key), KeyString(other))}

----------------------------------------------------------------------------
(* excel_writer.py *)

\* aggregate_sessions: the exception of the first item that raises, or the
\* keys of the grouped sessions
aggregate_sessions(schedule) ==
    LET ItemError(item) ==
            IF "time" \notin DOMAIN item THEN "KeyError"
            ELSE IF range_to_block(item.time).error THEN "ValueError"
            ELSE IF \E field \in {"therapist_id", "room_id", "day", "specialty", "patient_id"} :
                        field \notin DOMAIN item
                 THEN "KeyError"
                 ELSE ""
        errors == SelectSeq([n \in DOMAIN schedule |-> ItemError(schedule[n])],
                            LAMBDA e : e # "")
    IN  IF errors # <<>> THEN [raised |-> Head(errors), sessions |-> {}]
        ELSE [raised |-> "",
              sessions |-> {<<schedule[n].therapist_id, schedule[n].room_id, schedule[n].day,
                              range_to_block(schedule[n].time).value, schedule[n].specialty>> :
                               n \in DOMAIN schedule}]

\* export_excel: the exception raised, or the sheets of the saved workbook:
\* one per room, "Therapists" and "Patients"
export_excel(schedule) ==
    [raised |-> aggregate_sessions(schedule).raised,
     sheets |-> Cardinality({session[2] : session \in aggregate_sessions(schedule).sessions}) + 2]

----------------------------------------------------------------------------
(* api.py: run_solver_endpoint, delete_run and list_runs, each storage     *)
(* operation one step                                                      *)

\* solver_status_to_ui
solver_status_to_ui(status) ==
    IF status \in {"OPTIMAL", "FEASIBLE"} THEN "success"
    ELSE IF status \in {"INFEASIBLE", "MODEL_INVALID"} THEN "failed"
    ELSE IF status = "UNKNOWN" THEN "running"
    ELSE "idle"

\* SchedulerModel.solve as run_solver_endpoint sees it: the status and the
\* schedule of each result solve() can return
SolveOutcomes(inst, weights) ==
    UNION {UNION {UNION {
        {[status |-> "UNKNOWN", schedule |-> <<>>]}
        \cup (IF sols = {} THEN {[status |-> "INFEASIBLE", schedule |-> <<>>]} ELSE {})
        \cup {[status |-> "FEASIBLE", schedule |-> ExtractSchedule(V, sol)] : sol \in sols}
        \cup {[status |-> "OPTIMAL", schedule |-> ExtractSchedule(V, sol)] :
                 sol \in {a \in sols :
                             \E gaps \in therapist_idle_gaps(inst, V, a.t) :
                                 \A other \in values :
                                     objective(weights, patient_day_used(inst, V, a.x), gaps)
                                         <= other}}
        : values \in {ObjectiveValues(inst, weights, V, sols)}}
        : sols \in {Solutions(inst, V)}}
        : V \in {build_base_variables(inst)}}

\* the entities of the requests to /api/run: a patient free on Monday at 8
\* with a fixed therapist, an availability no parser accepts
ApiPayloads ==
    {Document(<<"08:00-09:00">>, <<>>, [speech |-> [lang |-> <<"T1">>]], 1, <<"speech">>, 1),
     Document(<<"morning">>, <<>>, <<>>, 1, <<"speech">>, 1)}

\* requests arrive one slot after the other
CanStart(i) ==
    /\ requests[i].pc = "idle"
    /\ \A j \in 1..(i - 1) : requests[j].pc # "idle"

latest_key(user_id) == <<SESSIONS, user_id, LATEST_JSON>>

\* runs.sort(key=finishedAt or startedAt or "", reverse=True); no two runs
\* finish at the same instant
RECURSIVE SortedRuns(_)
SortedRuns(runs) ==
    IF runs = {} THEN <<>>
    ELSE LET first == CHOOSE run \in runs :
                          \A other \in runs : other.finishedAt <= run.finishedAt
         IN  <<first>> \o SortedRuns(runs \ {first})

\* run_solver_endpoint, lines 390-403: the session id, the start time and
\* request.json
run_start ==
    /\ \E i \in Slots, user \in Users, payload \in ApiPayloads :
           /\ CanStart(i)
           /\ validate_id(user) /\ validate_id(uuid4_hex(i))
           /\ storage' = write(storage,
                               session_prefix(user, uuid4_hex(i)) \o <<REQUEST_JSON>>,
                               [entities |-> payload])
           /\ requests' = [requests EXCEPT ![i] =
                  [@ EXCEPT !.kind = "run", !.pc = "solve", !.user = user,
                            !.session_id = uuid4_hex(i), !.payload = payload,
                            !.started_at = utcnow]]
    /\ UNCHANGED <<backend, utcnow, solver_vars>>

\* run_solver_endpoint, lines 405-431 on each payload: the ValueError of
\* payload_to_instance or validate_schedule, or the results of solve()
RunOutcomes ==
    [payload \in ApiPayloads |->
        UNION {IF parsed.error # "" THEN {[status |-> "", schedule |-> <<>>, refused |-> TRUE]}
               ELSE {[status |-> outcome.status, schedule |-> outcome.schedule,
                      refused |-> ScheduleInvalid(outcome.schedule, parsed.instance)] :
                        outcome \in SolveOutcomes(parsed.instance, ObjectiveWeights(1, 1))}
               : parsed \in {PayloadToInstance(payload)}}]

\* run_solver_endpoint, lines 405-431: payload_to_instance, solve and
\* validate_schedule; 400 when the payload or the schedule is refused
run_solve ==
    /\ \E i \in Slots :
           /\ requests[i].pc = "solve"
           /\ \E outcome \in RunOutcomes[requests[i].payload] :
                  IF outcome.refused
                  THEN /\ requests' = [requests EXCEPT ![i] =
                              [@ EXCEPT !.pc = "done", !.response = 400, !.payload = <<>>]]
                       /\ utcnow' = utcnow
                  ELSE /\ requests' = [requests EXCEPT ![i] =
                              [@ EXCEPT !.pc = "write_schedule",
                                        !.payload = <<>>,
                                        !.status = outcome.status,
                                        !.schedule = outcome.schedule,
                                        !.finished_at = utcnow]]
                       /\ utcnow' = utcnow + 1
    /\ UNCHANGED <<backend, storage, solver_vars>>

\* what schedule.json and meta.json share
meta_payload(request) ==
    [sessionId |-> request.session_id,
     userId |-> request.user,
     status |-> solver_status_to_ui(request.status),
     startedAt |-> request.started_at,
     finishedAt |-> request.finished_at]

\* line 455: storage.write_json(schedule_key, schedule_payload); the sessions
\* of the payload are read by no request modelled here and are left out
run_write_schedule ==
    /\ \E i \in Slots :
           /\ requests[i].pc = "write_schedule"
           /\ storage' = write(storage,
                               session_prefix(requests[i].user, requests[i].session_id)
                                   \o <<SCHEDULE_JSON>>,
                               meta_payload(requests[i]))
           /\ requests' = [requests EXCEPT ![i].pc = "write_meta"]
    /\ UNCHANGED <<backend, utcnow, solver_vars>>

\* line 456: storage.write_json(meta_key, meta_payload)
run_write_meta ==
    /\ \E i \in Slots :
           /\ requests[i].pc = "write_meta"
           /\ storage' = write(storage,
                               session_prefix(requests[i].user, requests[i].session_id)
                                   \o <<META_JSON>>,
                               meta_payload(requests[i]))
           /\ requests' = [requests EXCEPT ![i].pc = "write_latest"]
    /\ UNCHANGED <<backend, utcnow, solver_vars>>

\* line 457: storage.write_json(latest_key, {"sessionId", "updatedAt"})
run_write_latest ==
    /\ \E i \in Slots :
           /\ requests[i].pc = "write_latest"
           /\ storage' = write(storage, latest_key(requests[i].user),
                               [sessionId |-> requests[i].session_id,
                                updatedAt |-> requests[i].finished_at])
           /\ requests' = [requests EXCEPT ![i].pc = "export_excel"]
    /\ UNCHANGED <<backend, utcnow, solver_vars>>

\* lines 458-469: export_excel and schedule.xlsx.  An exception of
\* export_excel other than OSError leaves the handler: the response is 500
\* and schedule.xlsx is not written.
run_export_excel ==
    /\ \E i \in Slots :
           /\ requests[i].pc = "export_excel"
           /\ \E workbook \in {export_excel(requests[i].schedule)} :
                  IF workbook.raised # ""
                  THEN /\ storage' = storage
                       /\ requests' = [requests EXCEPT ![i] =
                              [@ EXCEPT !.pc = "done", !.response = 500]]
                  ELSE /\ storage' = write(storage,
                                           session_prefix(requests[i].user,
                                                          requests[i].session_id)
                                               \o <<SCHEDULE_XLSX>>,
                                           [sheets |-> workbook.sheets])
                       /\ requests' = [requests EXCEPT ![i] =
                              [@ EXCEPT !.pc = "done", !.response = 200]]
    /\ UNCHANGED <<backend, utcnow, solver_vars>>

\* delete_run, lines 530-536: the keys of the run, 404 when there is none
delete_start ==
    /\ \E i \in Slots, user \in Users, session_id \in SessionIds :
           /\ CanStart(i)
           /\ validate_id(user) /\ validate_id(session_id)
           /\ \E keys \in {list_prefix(storage, session_prefix(user, session_id))} :
                  requests' = [requests EXCEPT ![i] =
                      [@ EXCEPT !.kind = "delete", !.user = user, !.session_id = session_id,
                                !.keys = keys,
                                !.pc = IF keys = {} THEN "done" ELSE "delete_keys",
                                !.response = IF keys = {} THEN 404 ELSE 0]]
    /\ UNCHANGED <<backend, storage, utcnow, solver_vars>>

\* delete_run, lines 537-541: storage.delete(key) for one key of the listing
delete_key ==
    /\ \E i \in Slots :
           /\ requests[i].pc = "delete_keys"
           /\ \E key \in NextKeys(requests[i].keys) :
                  /\ storage' = delete(storage, key)
                  /\ requests' = [requests EXCEPT ![i] =
                         [@ EXCEPT !.keys = @ \ {key},
                                   !.pc = IF requests[i].keys = {key} THEN "check_latest"
                                          ELSE "delete_keys"]]
    /\ UNCHANGED <<backend, utcnow, solver_vars>>

\* delete_run, lines 543-550: latest.json is read when it exists; the run
\* list is needed when it names the deleted session
delete_check_latest ==
    /\ \E i \in Slots :
           /\ requests[i].pc = "check_latest"
           /\ requests' = [requests EXCEPT ![i] =
                  IF /\ latest_key(requests[i].user) \in DOMAIN storage
                     /\ storage[latest_key(requests[i].user)].sessionId = requests[i].session_id
                  THEN [@ EXCEPT !.pc = "list_runs"]
                  ELSE [@ EXCEPT !.pc = "done", !.response = 200]]
    /\ UNCHANGED <<backend, storage, utcnow, solver_vars>>

\* list_runs, lines 519-525: GET /api/runs arrives
list_runs ==
    /\ \E i \in Slots, user \in Users :
           /\ CanStart(i)
           /\ validate_id(user)
           /\ requests' = [requests EXCEPT ![i] =
                  [@ EXCEPT !.kind = "list", !.user = user, !.pc = "list_runs"]]
    /\ UNCHANGED <<backend, storage, utcnow, solver_vars>>

\* where a request goes on once list_run_summaries has read every meta.json:
\* list_runs returns runs[:limit] (the limit is above MaxRequests), delete_run
\* updates latest.json
AfterSummaries(request) ==
    IF request.kind = "list"
    THEN [request EXCEPT !.pc = "done", !.response = 200,
                         !.listed = [n \in DOMAIN SortedRuns(request.runs) |->
                                        [sessionId |-> SortedRuns(request.runs)[n].sessionId,
                                         userId |-> SortedRuns(request.runs)[n].userId]]]
    ELSE [request EXCEPT !.pc = "update_latest"]

\* list_run_summaries, lines 371-376: storage.list_prefix(f"sessions/{user_id}")
\* and the keys that end with "/meta.json"
list_run_summaries ==
    /\ \E i \in Slots :
           /\ requests[i].pc = "list_runs"
           /\ \E keys \in {{key \in list_prefix(storage, <<SESSIONS, requests[i].user>>) :
                               EndsWith(KeyString(key), <<47>> \o META_JSON)}} :
                  requests' = [requests EXCEPT ![i] =
                      IF keys = {} THEN AfterSummaries([@ EXCEPT !.runs = {}])
                      ELSE [@ EXCEPT !.keys = keys, !.runs = {}, !.pc = "read_meta"]]
    /\ UNCHANGED <<backend, storage, utcnow, solver_vars>>

\* list_run_summaries, lines 378-383: storage.read_json of one meta key; a
\* key deleted since the listing is skipped
read_meta ==
    /\ \E i \in Slots :
           /\ requests[i].pc = "read_meta"
           /\ \E key \in NextKeys(requests[i].keys) :
              \E read \in {IF key \in DOMAIN storage THEN {storage[key]} ELSE {}} :
                  requests' = [requests EXCEPT ![i] =
                      IF requests[i].keys = {key}
                      THEN AfterSummaries([@ EXCEPT !.keys = {}, !.runs = @ \cup read])
                      ELSE [@ EXCEPT !.keys = @ \ {key}, !.runs = @ \cup read]]
    /\ UNCHANGED <<backend, storage, utcnow, solver_vars>>

\* delete_run, lines 551-563: latest.json is pointed at the newest run left,
\* or deleted when none is left
delete_update_latest ==
    /\ \E i \in Slots :
           /\ requests[i].pc = "update_latest"
           /\ \E runs \in {SortedRuns(requests[i].runs)} :
                  storage' = IF runs # <<>>
                             THEN write(storage, latest_key(requests[i].user),
                                        [sessionId |-> runs[1].sessionId,
                                         updatedAt |-> runs[1].finishedAt])
                             ELSE delete(storage, latest_key(requests[i].user))
           /\ requests' = [requests EXCEPT ![i] =
                  [@ EXCEPT !.pc = "done", !.response = 200, !.runs = {}]]
    /\ UNCHANGED <<backend, utcnow, solver_vars>>

ApiInit ==
    /\ backend \in {"local", "gcs"}
    /\ storage = <<>>
    /\ requests = [i \in Slots |-> IdleRequest]
    /\ utcnow = 0
    /\ pc = "api"
    /\ document = <<>>
    /\ load_error = ""
    /\ instance = <<>>
    /\ objective_weights = [patient_days_weight |-> 1, therapist_idle_gap_weight |-> 1]
    /\ session_active = {}
    /\ patient_sessions = {}
    /\ staffing = {}
    /\ result = [status |-> "NONE", objective_value |-> 0, schedule |-> <<>>,
                 diagnostics |-> <<>>, diagnostics_by_method |-> <<>>]
    /\ guard_raised = FALSE

ApiNext ==
    \/ run_start
    \/ run_solve
    \/ run_write_schedule
    \/ run_write_meta
    \/ run_write_latest
    \/ run_export_excel
    \/ delete_start
    \/ delete_key
    \/ delete_check_latest
    \/ list_runs
    \/ list_run_summaries
    \/ read_meta
    \/ delete_update_latest

ApiSpec == ApiInit /\ [][ApiNext]_vars

----------------------------------------------------------------------------
(* Properties of the result of solve                                       *)

Succeeded == result.status \in {"OPTIMAL", "FEASIBLE"}

\* the positions of the schedule list
Records == DOMAIN result.schedule

\* the positions of the records of one therapy that list one patient
RecordsOf(patient_id, therapy_id) ==
    {i \in Records :
        /\ result.schedule[i].therapy_id = therapy_id
        /\ patient_id \in Range(result.schedule[i].patient_ids)}

\* C1: in an OPTIMAL or FEASIBLE result, for every patient and every therapy
\* of the patient with required count n >= 0, exactly n schedule records
\* have that therapy and list the patient.
RequirementsMetExactly ==
    Succeeded =>
        \A patient \in Range(instance.patients) :
            \A therapy_id \in DOMAIN patient.therapies :
                patient.therapies[therapy_id] >= 0 =>
                    Cardinality(RecordsOf(patient.id, therapy_id))
                        = patient.therapies[therapy_id]

\* a patient with two slots open and one session required attends one record
RequirementsMetExactlyWitness ==
    /\ Succeeded
    /\ \E patient \in Range(instance.patients) :
           /\ "speech" \in DOMAIN patient.therapies
           /\ patient.therapies["speech"] = 1
           /\ Cardinality(PatientKeysOf(instance, patient)) >= 2
           /\ Cardinality(RecordsOf(patient.id, "speech")) = 1

\* the staff entries of one record that carry one specialty
StaffOf(i, specialty) ==
    {j \in DOMAIN result.schedule[i].staff :
        result.schedule[i].staff[j].specialty = specialty}

\* the session key a record was extracted from
RecordBlock(i) == CHOOSE b \in BLOCKS : block_to_range(b) = result.schedule[i].time

RecordKey(i) ==
    <<result.schedule[i].therapy_id, result.schedule[i].room_id,
      result.schedule[i].day, RecordBlock(i)>>

\* C2: in an OPTIMAL or FEASIBLE result, every record has, for every
\* specialty its therapy requires, exactly the required number of staff
\* entries with that specialty, and every required specialty has a
\* candidate therapist for the record's slot.
StaffingExact ==
    Succeeded =>
        \A i \in Records :
            \A specialty \in DOMAIN instance.therapies[result.schedule[i].therapy_id].requirements :
                /\ Cardinality(StaffOf(i, specialty))
                      = instance.therapies[result.schedule[i].therapy_id].requirements[specialty]
                /\ \E q \in staffing :
                      SessionOfStaffKey(q) = RecordKey(i) /\ q[6] = specialty

\* a record staffed by one of two candidate therapists of the specialty
StaffingExactWitness ==
    /\ Succeeded
    /\ \E i \in Records :
           /\ instance.therapies[result.schedule[i].therapy_id].requirements["lang"] = 1
           /\ Cardinality(StaffOf(i, "lang")) = 1
           /\ Cardinality({q \in staffing :
                  SessionOfStaffKey(q) = RecordKey(i) /\ q[6] = "lang"}) >= 2

\* C3: in an OPTIMAL or FEASIBLE result, every record lists at least
\* min_patients and at most min(max_patients, room capacity) patients, so
\* none is empty and none sits in a room smaller than min_patients.
CapacityBand ==
    Succeeded =>
        \A i \in Records :
            LET therapy_info == instance.therapies[result.schedule[i].therapy_id]
                room == RoomById(instance, result.schedule[i].room_id)
                n == Len(result.schedule[i].patient_ids)
            IN  /\ therapy_info.min_patients <= n
                /\ n <= therapy_info.max_patients
                /\ n <= room.capacity
                /\ n >= 1
                /\ room.capacity >= therapy_info.min_patients

\* two patients who could share a session are split by a room of capacity 1
CapacityBandWitness ==
    /\ Succeeded
    /\ Len(result.schedule) = 2
    /\ \A i \in Records :
           /\ Len(result.schedule[i].patient_ids) = 1
           /\ RoomById(instance, result.schedule[i].room_id).capacity = 1
           /\ instance.therapies[result.schedule[i].therapy_id].max_patients = 2
    /\ result.schedule[1].therapy_id = result.schedule[2].therapy_id
    /\ result.schedule[1].room_id = result.schedule[2].room_id

\* whether two records share their (day, time)
SameSlot(i, j) ==
    /\ result.schedule[i].day = result.schedule[j].day
    /\ result.schedule[i].time = result.schedule[j].time

\* the therapist ids of the staff of one record
StaffIds(i) ==
    {result.schedule[i].staff[j].therapist_id : j \in DOMAIN result.schedule[i].staff}

\* C4: in an OPTIMAL or FEASIBLE result, among the records of one
\* (day, time) no patient is listed twice, no therapist staffs two records
\* or one record twice, and no room is used twice.
NoDoubleBooking ==
    Succeeded =>
        /\ \A i \in Records : \A j \in Records \ {i} :
               SameSlot(i, j) =>
                   /\ Range(result.schedule[i].patient_ids)
                          \cap Range(result.schedule[j].patient_ids) = {}
                   /\ StaffIds(i) \cap StaffIds(j) = {}
                   /\ result.schedule[i].room_id # result.schedule[j].room_id
        /\ \A i \in Records :
               /\ Cardinality(StaffIds(i)) = Len(result.schedule[i].staff)
               /\ Cardinality(Range(result.schedule[i].patient_ids))
                      = Len(result.schedule[i].patient_ids)

\* two sessions run side by side in two rooms, and a therapist holding both
\* specialties of a therapy fills one of them only
NoDoubleBookingWitness ==
    /\ Succeeded
    /\ \E i \in Records : \E j \in Records \ {i} : SameSlot(i, j)
    /\ \E i \in Records :
           /\ result.schedule[i].therapy_id = "group"
           /\ Len(result.schedule[i].staff) = 2
           /\ "T1" \in StaffIds(i)

\* C5: in an OPTIMAL or FEASIBLE result, for every fixed-therapist binding
\* (patient, therapy, specialty, therapist), every record of the therapy
\* that lists the patient has the staff entry (therapist, specialty).
FixedTherapistsStaffed ==
    Succeeded =>
        \A patient \in Range(instance.patients) :
            \A therapy_id \in DOMAIN patient.fixed_therapists :
                \A specialty \in DOMAIN patient.fixed_therapists[therapy_id] :
                    \A therapist_id \in Range(patient.fixed_therapists[therapy_id][specialty]) :
                        \A i \in RecordsOf(patient.id, therapy_id) :
                            [therapist_id |-> therapist_id, specialty |-> specialty]
                                \in Range(result.schedule[i].staff)

\* a patient bound to T2 is staffed by T2 although T1 was a candidate too
FixedTherapistsStaffedWitness ==
    /\ Succeeded
    /\ \E patient \in Range(instance.patients) :
           /\ "speech" \in DOMAIN patient.fixed_therapists
           /\ Range(patient.fixed_therapists["speech"]["lang"]) = {"T2"}
           /\ \E i \in RecordsOf(patient.id, "speech") :
                  /\ Range(result.schedule[i].staff)
                         = {[therapist_id |-> "T2", specialty |-> "lang"]}
                  /\ <<"T1", "speech", result.schedule[i].room_id,
                       result.schedule[i].day, RecordBlock(i), "lang">> \in staffing

\* the records of one patient and therapy at one pinned slot
RecordsAt(patient_id, therapy_id, slot) ==
    {i \in RecordsOf(patient_id, therapy_id) :
        /\ result.schedule[i].day = slot.day
        /\ result.schedule[i].time = block_to_range(slot.block)}

\* C6: in an OPTIMAL or FEASIBLE result, for every pin (patient, therapy,
\* day, block), exactly one record has that therapy, day and
\* block_to_range(block) and lists the patient.
PinsHonoured ==
    Succeeded =>
        \A patient \in Range(instance.patients) :
            \A therapy_id \in DOMAIN patient.pinned_sessions :
                \A slot \in Range(patient.pinned_sessions[therapy_id]) :
                    Cardinality(RecordsAt(patient.id, therapy_id, slot)) = 1

\* the only record of a patient sits at the pin, other slots being open
PinsHonouredWitness ==
    /\ Succeeded
    /\ \E patient \in Range(instance.patients) :
           /\ "speech" \in DOMAIN patient.pinned_sessions
           /\ patient.therapies["speech"] = 1
           /\ Cardinality(PatientKeysOf(instance, patient)) >= 3
           /\ \E slot \in Range(patient.pinned_sessions["speech"]) :
                  RecordsAt(patient.id, "speech", slot) = RecordsOf(patient.id, "speech")
           /\ Cardinality(RecordsOf(patient.id, "speech")) = 1

TherapistById(inst, therapist_id) ==
    CHOOSE therapist \in Range(inst.therapists) : therapist.id = therapist_id

PatientById(inst, patient_id) ==
    CHOOSE patient \in Range(inst.patients) : patient.id = patient_id

\* whether the patient has the slot of record i in the stated availability
PatientAvailableAt(patient, i) ==
    RecordBlock(i) \in Get(patient.availability, result.schedule[i].day, {})

\* whether the patient has a pin for the therapy, day and block of record i
PatientPinnedAt(patient, i) ==
    \E slot \in Range(Get(patient.pinned_sessions, result.schedule[i].therapy_id, <<>>)) :
        slot.day = result.schedule[i].day /\ slot.block = RecordBlock(i)

\* C7: in an OPTIMAL or FEASIBLE result, every staff entry names a
\* therapist who holds the stated specialty and is available at the
\* record's (day, block), and every listed patient is available at that
\* block of that day or has a pin for exactly that therapy, day and block.
EveryoneAvailable ==
    Succeeded =>
        \A i \in Records :
            /\ \A j \in DOMAIN result.schedule[i].staff :
                   LET entry == result.schedule[i].staff[j]
                       therapist == TherapistById(instance, entry.therapist_id)
                   IN  /\ \E th \in Range(instance.therapists) : th.id = entry.therapist_id
                       /\ entry.specialty \in therapist.specialties
                       /\ result.schedule[i].day \in DOMAIN therapist.availability
                       /\ RecordBlock(i) \in therapist.availability[result.schedule[i].day]
            /\ \A patient_id \in Range(result.schedule[i].patient_ids) :
                   LET patient == PatientById(instance, patient_id)
                   IN  /\ \E pa \in Range(instance.patients) : pa.id = patient_id
                       /\ PatientAvailableAt(patient, i) \/ PatientPinnedAt(patient, i)

\* a patient attends at a pinned slot outside the stated availability, with
\* a therapist who is available there
EveryoneAvailableWitness ==
    /\ Succeeded
    /\ \E i \in Records :
           /\ result.schedule[i].staff # <<>>
           /\ \E patient_id \in Range(result.schedule[i].patient_ids) :
                  /\ ~PatientAvailableAt(PatientById(instance, patient_id), i)
                  /\ PatientPinnedAt(PatientById(instance, patient_id), i)

\* the records that list one patient on one day within a set of blocks
RecordsIn(patient_id, day, blocks) ==
    {i \in Records :
        /\ patient_id \in Range(result.schedule[i].patient_ids)
        /\ result.schedule[i].day = day
        /\ RecordBlock(i) \in blocks}

\* the windows the continuous-hours rule is stated over
AllWindows == UNION {WindowsOf(segment) : segment \in Range(consecutive_segments)}

\* C8: in an OPTIMAL or FEASIBLE result, for every patient, day and window
\* of 4 consecutive blocks inside the morning or the afternoon segment
\* (0-3, 1-4, 5-8), at most max_continuous_hours records list the patient
\* in the window; the windows are these three, none holding blocks 4 and 5.
ContinuousHoursWindows ==
    /\ AllWindows = {0..3, 1..4, 5..8}
    /\ \A window \in AllWindows : ~({4, 5} \subseteq window)
    /\ Succeeded =>
           \A patient \in Range(instance.patients) :
               \A day \in Days :
                   \A window \in {0..3, 1..4, 5..8} :
                       Cardinality(RecordsIn(patient.id, day, window))
                           <= patient.max_continuous_hours

\* a patient limited to one block per window attends blocks 4 and 5 of a day
ContinuousHoursWindowsWitness ==
    /\ Succeeded
    /\ \E patient \in Range(instance.patients) :
           /\ patient.max_continuous_hours = 1
           /\ RecordsIn(patient.id, "Monday", {4}) # {}
           /\ RecordsIn(patient.id, "Monday", {5}) # {}

\* C9: in an OPTIMAL or FEASIBLE result, for every patient and every
\* therapy in the patient's no_same_day_therapies, no day has more than one
\* record of that therapy listing the patient.
NoSameDay ==
    Succeeded =>
        \A patient \in Range(instance.patients) :
            \A therapy_id \in patient.no_same_day_therapies :
                \A day \in Days :
                    Cardinality({i \in RecordsOf(patient.id, therapy_id) :
                                    result.schedule[i].day = day}) <= 1

\* two sessions of a no-same-day therapy land on two days although one day
\* had two open slots
NoSameDayWitness ==
    /\ Succeeded
    /\ \E patient \in Range(instance.patients) :
           /\ "speech" \in patient.no_same_day_therapies
           /\ patient.therapies["speech"] = 2
           /\ Cardinality(Get(patient.availability, "Monday", {})) = 2
           /\ {result.schedule[i].day : i \in RecordsOf(patient.id, "speech")}
                  = {"Monday", "Tuesday"}

\* C10: every record of the schedule solve returns uses a room whose
\* allowed therapies contain the record's therapy, so validate_schedule
\* does not raise on that schedule and Instance.
RoomAllowsScheduledTherapy ==
    /\ \A i \in Records :
           /\ \E room \in Range(instance.rooms) : room.id = result.schedule[i].room_id
           /\ result.schedule[i].therapy_id
                  \in RoomById(instance, result.schedule[i].room_id).therapies
    /\ pc = "solved" => ~ScheduleInvalid(result.schedule, instance)
    /\ pc = "validated" => ~guard_raised

\* the guard has passed a schedule that had to avoid a room closed to its therapy
RoomAllowsScheduledTherapyWitness ==
    /\ pc = "validated"
    /\ ~guard_raised
    /\ \E i \in Records :
           \E room \in Range(instance.rooms) :
               /\ result.schedule[i].therapy_id \notin room.therapies
               /\ \E j \in Records \ {i} : SameSlot(i, j) /\ result.schedule[j].room_id = room.id

\* whether a sequence of sort keys is in strictly ascending order
Ascending(keys) ==
    \A i \in DOMAIN keys : \A j \in DOMAIN keys : i < j => KeyLess(keys[i], keys[j])

\* C11: the schedule list solve returns is sorted ascending by (day index,
\* time-range string, room id, therapy id); in each record patient_ids is
\* ascending and staff is ascending by (specialty, therapist id); the nine
\* time strings order like their blocks, so the list is chronological.
ScheduleSorted ==
    /\ \A b1 \in BLOCKS : \A b2 \in BLOCKS :
           b1 < b2 <=> SeqLess(CodePoints[block_to_range(b1)],
                               CodePoints[block_to_range(b2)])
    /\ Ascending([i \in Records |->
           << <<DayIndex(result.schedule[i].day)>>,
              CodePoints[result.schedule[i].time],
              CodePoints[result.schedule[i].room_id],
              CodePoints[result.schedule[i].therapy_id] >>])
    /\ \A i \in Records : \A j \in Records :
           i < j =>
               \/ DayIndex(result.schedule[i].day) < DayIndex(result.schedule[j].day)
               \/ /\ result.schedule[i].day = result.schedule[j].day
                  /\ RecordBlock(i) <= RecordBlock(j)
    /\ \A i \in Records :
           /\ Ascending([j \in DOMAIN result.schedule[i].patient_ids |->
                  <<CodePoints[result.schedule[i].patient_ids[j]]>>])
           /\ Ascending([j \in DOMAIN result.schedule[i].staff |->
                  <<CodePoints[result.schedule[i].staff[j].specialty],
                    CodePoints[result.schedule[i].staff[j].therapist_id]>>])

\* a later record of the list has an earlier time of day than the record
\* before it, which falls on an earlier day
ScheduleSortedWitness ==
    /\ Succeeded
    /\ \E i \in Records : \E j \in Records :
           /\ j = i + 1
           /\ DayIndex(result.schedule[i].day) < DayIndex(result.schedule[j].day)
           /\ RecordBlock(j) < RecordBlock(i)

\* C12: solve() always returns a result whose status is one of OPTIMAL,
\* FEASIBLE, INFEASIBLE, UNKNOWN, MODEL_INVALID.  With OPTIMAL or FEASIBLE the
\* diagnostics list and the diagnostics_by_method dict are empty.  Otherwise
\* the schedule is empty, diagnostics_by_method has exactly the keys
\* assumptions, prechecks and soft, and diagnostics is the assumptions items,
\* then the prechecks items, then the soft items, each in its own order and
\* each prefixed with "<key>: ".
SolveResultShape ==
    pc # "ready" =>
        /\ result.status \in {"OPTIMAL", "FEASIBLE", "INFEASIBLE", "UNKNOWN", "MODEL_INVALID"}
        /\ result.status \in {"OPTIMAL", "FEASIBLE"} =>
               /\ result.diagnostics = <<>>
               /\ DOMAIN result.diagnostics_by_method = {}
        /\ result.status \notin {"OPTIMAL", "FEASIBLE"} =>
               /\ result.schedule = <<>>
               /\ DOMAIN result.diagnostics_by_method = {"assumptions", "prechecks", "soft"}
               /\ LET a == result.diagnostics_by_method.assumptions
                      p == result.diagnostics_by_method.prechecks
                      c == result.diagnostics_by_method.soft
                  IN  /\ Len(result.diagnostics) = Len(a) + Len(p) + Len(c)
                      /\ \A i \in DOMAIN a : result.diagnostics[i] = <<"assumptions", a[i]>>
                      /\ \A i \in DOMAIN p :
                             result.diagnostics[Len(a) + i] = <<"prechecks", p[i]>>
                      /\ \A i \in DOMAIN c :
                             result.diagnostics[Len(a) + Len(p) + i] = <<"soft", c[i]>>

\* an INFEASIBLE result where every explainer reports, the assumptions and soft
\* explainers with two items or more
SolveResultShapeWitness ==
    /\ pc = "solved"
    /\ result.status = "INFEASIBLE"
    /\ DOMAIN result.diagnostics_by_method = {"assumptions", "prechecks", "soft"}
    /\ Len(result.diagnostics_by_method.assumptions) >= 2
    /\ Len(result.diagnostics_by_method.prechecks) >= 1
    /\ Len(result.diagnostics_by_method.soft) >= 2

\* the pins (patient, therapy, slot) of the instance whose block lies outside
\* the patient's availability
PinsOutsideAvailability ==
    UNION {UNION {{<<patient, therapy_id, slot>> :
                      slot \in {sl \in Range(patient.pinned_sessions[therapy_id]) :
                                   sl.block \notin Get(patient.availability, sl.day, {})}}
                  : therapy_id \in DOMAIN patient.pinned_sessions}
           : patient \in Range(instance.patients)}

\* The room and the therapists are available for a pin and nothing else
\* conflicts: the pinned session is all the instance asks for, a room that
\* allows the therapy takes one patient, and the one specialty the therapy
\* requires has enough therapists available at the slot.
PinStandsAlone(pin) ==
    LET patient == pin[1]
        therapy_id == pin[2]
        slot == pin[3]
        info == instance.therapies[therapy_id]
    IN  /\ \A other \in Range(instance.patients) :
               \A u \in DOMAIN other.therapies :
                   other.therapies[u] =
                       IF other.id = patient.id /\ u = therapy_id THEN 1 ELSE 0
        /\ patient.max_continuous_hours >= 1
        /\ DOMAIN patient.fixed_therapists = {}
        /\ \E room \in Range(instance.rooms) :
               /\ therapy_id \in room.therapies
               /\ Min(info.max_patients, room.capacity) >= 1
        /\ info.min_patients <= 1
        /\ Cardinality(DOMAIN info.requirements) = 1
        /\ \A specialty \in DOMAIN info.requirements :
               Cardinality({therapist \in Range(instance.therapists) :
                               /\ specialty \in therapist.specialties
                               /\ slot.block \in Get(therapist.availability, slot.day, {})})
                   >= info.requirements[specialty]

\* C13: once the variables are built, every pin (p, u, d, b) has a patient
\* variable (p, u, r, d, b) for every room r that allows u, also when b is
\* outside p's availability.  Such a pin does not make the model infeasible
\* where the room and therapists are available and nothing else conflicts,
\* and a solved result then has p attending u at (d, b).
PinOutsideAvailabilitySchedulable ==
    pc # "ready" =>
        /\ \A patient \in Range(instance.patients) :
               \A therapy_id \in DOMAIN patient.pinned_sessions :
                   \A slot \in Range(patient.pinned_sessions[therapy_id]) :
                       \A room \in Range(instance.rooms) :
                           therapy_id \in room.therapies =>
                               <<patient.id, therapy_id, room.id, slot.day, slot.block>>
                                   \in patient_sessions
        /\ \A pin \in PinsOutsideAvailability :
               PinStandsAlone(pin) =>
                   /\ result.status # "INFEASIBLE"
                   /\ Succeeded =>
                          \E i \in Records :
                              /\ result.schedule[i].therapy_id = pin[2]
                              /\ result.schedule[i].day = pin[3].day
                              /\ result.schedule[i].time = block_to_range(pin[3].block)
                              /\ pin[1].id \in Range(result.schedule[i].patient_ids)

\* a solved result whose one session is a pin outside the patient's availability
PinOutsideAvailabilitySchedulableWitness ==
    /\ Succeeded
    /\ \E pin \in PinsOutsideAvailability :
           /\ PinStandsAlone(pin)
           /\ \E i \in Records :
                  /\ result.schedule[i].day = pin[3].day
                  /\ result.schedule[i].time = block_to_range(pin[3].block)
                  /\ pin[1].id \in Range(result.schedule[i].patient_ids)

----------------------------------------------------------------------------
(* Claims about load_instance, under LoaderSpec *)

Loaded == pc = "loaded"
Raised == pc = "raised"

\* C14: load_instance raises whenever some room of the document has
\* capacity < 1 or lists an allowed therapy id that Therapies does not define.
RoomsValidatedOnLoad ==
    (Loaded \/ Raised) =>
        ((\E i \in DOMAIN document.rooms :
              \/ document.rooms[i].capacity < 1
              \/ \E j \in DOMAIN document.rooms[i].therapies :
                     document.rooms[i].therapies[j] \notin DOMAIN document.therapies)
            => Raised)

\* the entries fixed_therapists[therapy][specialty] of the patients loaded
\* from the document, as <<therapy, specialty, ids>>
FixedEntries ==
    UNION {LET fixed == parse_fixed_therapists(document.patients[i].fixed_therapists)
           IN  UNION {{<<u, sp, fixed[u][sp]>> : sp \in DOMAIN fixed[u]} : u \in DOMAIN fixed}
           : i \in DOMAIN document.patients}

\* one of the six faults of an entry
FixedEntryFaulty(entry) ==
    LET therapy_id == entry[1]
        specialty == entry[2]
        ids == entry[3]
        Holders == {document.therapists[i].id :
                       i \in {j \in DOMAIN document.therapists :
                                 specialty \in Range(document.therapists[j].specialties)}}
        Known == {document.therapists[i].id : i \in DOMAIN document.therapists}
    IN  \/ therapy_id \notin DOMAIN document.therapies
        \/ /\ therapy_id \in DOMAIN document.therapies
           /\ \/ specialty \notin DOMAIN document.therapies[therapy_id].requirements
              \/ /\ specialty \in DOMAIN document.therapies[therapy_id].requirements
                 /\ Len(ids) > document.therapies[therapy_id].requirements[specialty]
        \/ \E i, j \in DOMAIN ids : i # j /\ ids[i] = ids[j]
        \/ \E i \in DOMAIN ids : ids[i] \notin Known
        \/ \E i \in DOMAIN ids : ids[i] \notin Holders

\* the document with the fixed therapists of every patient taken out
WithoutFixedTherapists ==
    [document EXCEPT !.patients =
        [i \in DOMAIN document.patients |->
            [document.patients[i] EXCEPT !.fixed_therapists = <<>>]]]

\* C15: load_instance raises whenever a fixed_therapists[therapy][specialty]
\* entry of a patient names an unknown therapy, a specialty the therapy does
\* not require, more therapists than the required count, a therapist twice,
\* an unknown therapist, or a therapist without the specialty; entries with
\* none of the six faults do not make it raise.
FixedTherapistsValidatedOnLoad ==
    (Loaded \/ Raised) =>
        /\ (\E entry \in FixedEntries : FixedEntryFaulty(entry)) => Raised
        /\ ((\A entry \in FixedEntries : ~FixedEntryFaulty(entry))
                /\ LoadInstance(WithoutFixedTherapists).error = "") => Loaded

\* an entry of two therapists passes the six checks and is loaded
FixedTherapistsValidatedOnLoadWitness ==
    /\ Loaded
    /\ \E entry \in FixedEntries : Len(entry[3]) = 2
    /\ "speech" \in DOMAIN instance.patients[1].fixed_therapists

\* the interval strings of TimeStrings that read as H:M-H:M, with the start
\* and end minutes they denote
IntervalMinutes ==
    "08:00-09:00" :> <<480, 540>> @@
    "12:00-13:00" :> <<720, 780>> @@
    "14:00-15:00" :> <<840, 900>> @@
    "08:00-12:00" :> <<480, 720>> @@
    "08:30-09:30" :> <<510, 570>> @@
    "13:00-14:00" :> <<780, 840>> @@
    "12:00-15:00" :> <<720, 900>> @@
    "8:00-9:00" :> <<480, 540>>

\* the nine canonical block ranges
CanonicalRanges ==
    {"08:00-09:00", "09:00-10:00", "10:00-11:00", "11:00-12:00", "12:00-13:00",
     "14:00-15:00", "15:00-16:00", "16:00-17:00", "17:00-18:00"}

\* the interval strings in the availability lists of the document
DocumentIntervals ==
    UNION {UNION {Range(entity.availability[day]) : day \in DOMAIN entity.availability}
           : entity \in Range(document.therapists) \cup Range(document.patients)}

\* the times of the pins of the document that have a day and a time
DocumentPinTimes ==
    UNION {UNION {{slot.time : slot \in {sl \in Range(patient.pinned_sessions[u]) :
                                            sl.day # "" /\ sl.time # ""}}
                  : u \in DOMAIN patient.pinned_sessions}
           : patient \in Range(document.patients)}

\* C16 as stated: load_instance accepts a document only if every pin time
\* and every availability interval is one of the nine canonical ranges.
OnlyCanonicalRangesAccepted ==
    Loaded => (DocumentPinTimes \cup DocumentIntervals) \subseteq CanonicalRanges

\* C16, amended: a pin time is accepted exactly when it is one of the nine
\* canonical ranges; an availability interval is accepted exactly when it
\* reads as H:M-H:M, canonical or not (08:00-12:00, 08:30-09:30 and
\* 13:00-14:00 are accepted).
TimeStringsAccepted ==
    (Loaded \/ Raised) =>
        /\ ~(DocumentPinTimes \subseteq CanonicalRanges) => Raised
        /\ ~(DocumentIntervals \subseteq DOMAIN IntervalMinutes) => Raised
        /\ (/\ DocumentPinTimes \subseteq CanonicalRanges
            /\ DocumentIntervals \subseteq DOMAIN IntervalMinutes
            /\ document \in TimeDocuments) => Loaded

\* a document whose patient lists a canonical and two other intervals is loaded
TimeStringsAcceptedWitness ==
    /\ Loaded
    /\ {"13:00-14:00", "08:30-09:30"} \subseteq Range(document.patients[1].availability["Monday"])
    /\ "08:00-12:00" \in DocumentIntervals

\* start(b) and end(b) in minutes: 08:00 + b hours before lunch, one hour
\* later from block 5 on
BlockStart(b) == IF b <= 4 THEN (8 + b) * 60 ELSE (9 + b) * 60
BlockEnd(b) == BlockStart(b) + 60

\* C17: for every entity and day with a non-empty interval list, the loaded
\* availability of the day is exactly the set of blocks b in 0..8 for which
\* some interval has start <= start(b) and end(b) <= end; a block covered in
\* part only is left out, and 12:00-15:00 alone gives blocks 4 and 5.
BlocksFullyCovered ==
    Loaded =>
        \A i \in DOMAIN document.patients :
            \A day \in DOMAIN document.patients[i].availability :
                LET intervals == document.patients[i].availability[day]
                IN  /\ intervals = <<>> => day \notin DOMAIN instance.patients[i].availability
                    /\ intervals # <<>> =>
                           /\ day \in DOMAIN instance.patients[i].availability
                           /\ instance.patients[i].availability[day] =
                                  {b \in 0..8 :
                                      \E n \in DOMAIN intervals :
                                          /\ IntervalMinutes[intervals[n]][1] <= BlockStart(b)
                                          /\ BlockEnd(b) <= IntervalMinutes[intervals[n]][2]}
                           /\ intervals = <<"12:00-15:00">> =>
                                  instance.patients[i].availability[day] = {4, 5}

\* 12:00-15:00 next to an interval that covers no block whole
BlocksFullyCoveredWitness ==
    /\ Loaded
    /\ document.patients[1].availability["Monday"] = <<"12:00-15:00", "08:30-09:30">>
    /\ instance.patients[1].availability["Monday"] = {4, 5}

(***************************************************************************)
(* Claims about the structural prechecks of a failed solve.                *)
(***************************************************************************)

Failed == pc = "solved" /\ ~Succeeded

\* the items the precheck explainer returned
Prechecks == Range(result.diagnostics_by_method.prechecks)

\* the (patient, therapy) pairs with a positive required count
Requirements ==
    {pu \in UNION {{<<patient, u>> : u \in DOMAIN patient.therapies} :
                       patient \in Range(instance.patients)} :
        pu[1].therapies[pu[2]] > 0}

\* the candidate patient_in_session variables of a patient and a therapy
CandidateSlots(pid, u) == {q \in patient_sessions : q[1] = pid /\ q[2] = u}

\* the days with one candidate slot or more, each with its count, in week order
DayBreakdown(pid, u) ==
    SelectSeq([i \in DOMAIN DAY_ORDER |->
                  <<DAY_ORDER[i],
                    Cardinality({q \in CandidateSlots(pid, u) : q[4] = DAY_ORDER[i]})>>],
              LAMBDA dc : dc[2] > 0)

FeasibleDays(pid, u) == {q[4] : q \in CandidateSlots(pid, u)}

NoRoomAllows(u) == \A i \in DOMAIN instance.rooms : u \notin instance.rooms[i].therapies

NoAvailabilityBlocks(patient) ==
    \A day \in DOMAIN patient.availability : patient.availability[day] = {}

ShortfallMessage(patient, u) ==
    <<"shortfall", patient.id, patient.therapies[u], u,
      Cardinality(CandidateSlots(patient.id, u)), DayBreakdown(patient.id, u)>>

\* C18 as stated: every (patient, therapy) requirement with fewer candidate
\* slots than required sessions has its shortfall message with the per-day
\* breakdown among the prechecks, next to the no-room and no-availability
\* messages when there is no candidate slot at all.
ShortfallAlwaysReported ==
    Failed =>
        \A pu \in Requirements :
            LET patient == pu[1]
                u == pu[2]
                count == Cardinality(CandidateSlots(patient.id, u))
            IN  count < patient.therapies[u] =>
                    /\ ShortfallMessage(patient, u) \in Prechecks
                    /\ (count = 0 /\ NoRoomAllows(u)) =>
                           <<"no_rooms", patient.id, u>> \in Prechecks
                    /\ (count = 0 /\ NoAvailabilityBlocks(patient)) =>
                           <<"no_availability", patient.id, u>> \in Prechecks

\* C18 (amended): a requirement with fewer candidate slots than required
\* sessions has its shortfall message with the per-day breakdown among the
\* prechecks when it has a candidate slot, or when some room allows the
\* therapy and the patient has availability blocks; with no candidate slot
\* and no room for the therapy the no-room message is there, with no
\* candidate slot and no availability block the no-availability message, and
\* in these two cases the shortfall message is left out.
ShortfallReported ==
    Failed =>
        \A pu \in Requirements :
            LET patient == pu[1]
                u == pu[2]
                count == Cardinality(CandidateSlots(patient.id, u))
                explained == count = 0 /\ (NoRoomAllows(u) \/ NoAvailabilityBlocks(patient))
            IN  count < patient.therapies[u] =>
                    /\ ShortfallMessage(patient, u) \in Prechecks <=> ~explained
                    /\ (count = 0 /\ NoRoomAllows(u)) =>
                           <<"no_rooms", patient.id, u>> \in Prechecks
                    /\ (count = 0 /\ NoAvailabilityBlocks(patient)) =>
                           <<"no_availability", patient.id, u>> \in Prechecks

\* a failed solve of a patient with one candidate slot for two required
\* sessions, reported with the breakdown Monday:1
ShortfallReportedWitness ==
    /\ Failed
    /\ \E pu \in Requirements :
           /\ pu[1].therapies[pu[2]] = 2
           /\ Cardinality(CandidateSlots(pu[1].id, pu[2])) = 1
           /\ <<"shortfall", pu[1].id, 2, pu[2], 1, << <<"Monday", 1>> >> >> \in Prechecks

CapMessage(patient, u) ==
    <<"no_same_day_cap", patient.id, u,
      Cardinality(FeasibleDays(patient.id, u)), patient.therapies[u]>>

InstanceFixedBindings ==
    UNION {UNION {UNION {{<<patient, u, s, t>> :
                             t \in Range(patient.fixed_therapists[u][s]) \ {""}}
                         : s \in DOMAIN patient.fixed_therapists[u]}
                  : u \in DOMAIN patient.fixed_therapists}
           : patient \in Range(instance.patients)}

KnownTherapist(t) == \E i \in DOMAIN instance.therapists : instance.therapists[i].id = t

HasSpecialty(t, s) ==
    \E i \in DOMAIN instance.therapists :
        instance.therapists[i].id = t /\ s \in instance.therapists[i].specialties

\* a (room, day, block) with both the patient's and the therapist's variable
CommonSlot(b) ==
    \E q \in patient_sessions :
        /\ q[1] = b[1].id
        /\ q[2] = b[2]
        /\ <<b[4], b[2], q[3], q[4], q[5], b[3]>> \in staffing

UnknownTherapistMessage(b) == <<"fixed_unknown_therapist", b[1].id, b[4], b[2]>>
LacksSpecialtyMessage(b) == <<"fixed_lacks_specialty", b[4], b[3], b[1].id, b[2]>>
NoCommonSlotMessage(b) == <<"fixed_no_common_slot", b[1].id, b[4], b[2], b[3]>>

\* the binding names a defined therapy and a specialty that therapy requires
BindingOfRequirement(b) ==
    /\ b[2] \in DOMAIN instance.therapies
    /\ Get(instance.therapies[b[2]].requirements, b[3], 0) # 0

\* C20: for every fixed-therapist binding the prechecks hold a message
\* when the therapist is unknown, lacks the specialty, or shares no (room,
\* day, block) with the patient: for a binding of a specialty its therapy
\* requires that is the unknown-therapist, the lacks-specialty or the
\* no-common-slot message, in this order of precedence, and otherwise the
\* message that the therapy is unknown or does not require the specialty.
\* A binding with a common slot has none of the three messages.
FixedBindingsReported ==
    Failed =>
        \A b \in InstanceFixedBindings :
            /\ (BindingOfRequirement(b) /\ ~KnownTherapist(b[4])) =>
                   UnknownTherapistMessage(b) \in Prechecks
            /\ (BindingOfRequirement(b) /\ KnownTherapist(b[4]) /\ ~HasSpecialty(b[4], b[3])) =>
                   LacksSpecialtyMessage(b) \in Prechecks
            /\ (BindingOfRequirement(b) /\ HasSpecialty(b[4], b[3]) /\ ~CommonSlot(b)) =>
                   NoCommonSlotMessage(b) \in Prechecks
            /\ b[2] \notin DOMAIN instance.therapies =>
                   <<"fixed_unknown_therapy", b[1].id, b[2]>> \in Prechecks
            /\ (b[2] \in DOMAIN instance.therapies /\ ~BindingOfRequirement(b)) =>
                   <<"fixed_not_required", b[1].id, b[3], b[2]>> \in Prechecks
            /\ CommonSlot(b) =>
                   {UnknownTherapistMessage(b), LacksSpecialtyMessage(b),
                    NoCommonSlotMessage(b)} \cap Prechecks = {}

\* a failed solve with a binding to a known therapist of the right specialty
\* who has no slot in common with the patient, reported as such
FixedBindingsReportedWitness ==
    /\ result.status = "INFEASIBLE"
    /\ \E b \in InstanceFixedBindings :
           /\ BindingOfRequirement(b)
           /\ HasSpecialty(b[4], b[3])
           /\ ~CommonSlot(b)
           /\ NoCommonSlotMessage(b) \in Prechecks

(***************************************************************************)
(* Claims about the assumption model and the objective.                    *)
(***************************************************************************)

\* the variables of the model as the solve left them
BuiltVariables ==
    [session_active |-> session_active, patient_sessions |-> patient_sessions,
     staffing |-> staffing]

\* the instance with therapist b[4] taken out of the binding b
WithoutBinding(b) ==
    [instance EXCEPT !.patients =
        [i \in DOMAIN instance.patients |->
            IF instance.patients[i].id # b[1].id THEN instance.patients[i]
            ELSE [instance.patients[i] EXCEPT !.fixed_therapists[b[2]][b[3]] =
                     SelectSeq(@, LAMBDA id : id # b[4])]]]

\* the bindings of scenario S5: the patient requires the therapy, the fixed
\* therapist shares no slot with the patient, and without the binding the
\* instance has a schedule
ImpossibleBindings ==
    {b \in InstanceFixedBindings :
        /\ Get(b[1].therapies, b[2], 0) > 0
        /\ ~CommonSlot(b)
        /\ Solutions(WithoutBinding(b), BuiltVariables) # {}}

FixedTherapistLabel(b) == <<"fixed_therapist", b[1].id, b[2], b[3], b[4]>>

\* the assumptions explainer returned a core, not a status or a fallback line
CoreReported ==
    /\ Failed
    /\ result.diagnostics_by_method.assumptions # <<>>
    /\ result.diagnostics_by_method.assumptions[1][1] \notin
           {"no_assumptions", "assumptions_unsupported", "assumption_status",
            "core_unsupported", "core_empty"}

\* C21: when a patient requiring a therapy fixes a therapist who shares no
\* slot with the patient, in an instance that has a schedule without the
\* binding, the solve does not succeed, the assumption model with every
\* literal true has no solution while it has one as soon as the literal
\* fixed_therapist|p|u|s|t is left out (so every sufficient set of labels
\* holds that label), and a reported core names the binding.
ImpossibleBindingInCore ==
    pc = "solved" =>
        \A b \in ImpossibleBindings :
            LET labels == AssumptionLabels(instance, BuiltVariables)
            IN  /\ Failed
                /\ FixedTherapistLabel(b) \in labels
                /\ ~AssumptionFeasible(instance, BuiltVariables, labels)
                /\ AssumptionFeasible(instance, BuiltVariables,
                                      labels \ {FixedTherapistLabel(b)})
                /\ \A i \in DOMAIN result.diagnostics_by_method.assumptions :
                       result.diagnostics_by_method.assumptions[i]
                           \notin {<<"assumption_status", "OPTIMAL">>,
                                   <<"assumption_status", "FEASIBLE">>}
                /\ CoreReported =>
                       format_assumption_label(FixedTherapistLabel(b))
                           \in Range(result.diagnostics_by_method.assumptions)

\* an INFEASIBLE solve of scenario S5 whose reported core names the binding
ImpossibleBindingInCoreWitness ==
    /\ result.status = "INFEASIBLE"
    /\ CoreReported
    /\ \E b \in ImpossibleBindings :
           /\ KnownTherapist(b[4])
           /\ HasSpecialty(b[4], b[3])
           /\ <<"fixed_therapist", b[1].id, b[4], b[2], b[3]>>
                  \in Range(result.diagnostics_by_method.assumptions)

\* the (therapist, day, block) triples at which a set of staff values is busy
BusyAt(t) == {<<q[1], q[4], q[5]>> : q \in t}

\* busy - idle - busy over three consecutive blocks of one segment
IdlePattern(busy) ==
    \E c \in busy :
        \E segment \in Range(consecutive_segments) :
            \E idx \in 2..(Len(segment) - 1) :
                /\ segment[idx - 1] = c[3]
                /\ <<c[1], c[2], segment[idx]>> \notin busy
                /\ <<c[1], c[2], segment[idx + 1]>> \in busy

\* the (therapist, day, block) triples at which the schedule has staff
ScheduleBusy ==
    UNION {{<<result.schedule[i].staff[j].therapist_id, result.schedule[i].day,
              CHOOSE b \in BLOCKS : block_to_range(b) = result.schedule[i].time>> :
               j \in DOMAIN result.schedule[i].staff}
           : i \in Records}

\* C22: with therapist_idle_gap_weight >= 1, an OPTIMAL schedule has no
\* therapist busy - idle - busy over three consecutive blocks of a segment
\* whenever the instance has a schedule without such a pattern.
OptimalAvoidsIdleGaps ==
    (/\ result.status = "OPTIMAL"
     /\ objective_weights.therapist_idle_gap_weight >= 1
     /\ IdlePattern(ScheduleBusy))
        => \A sol \in Solutions(instance, BuiltVariables) : IdlePattern(BusyAt(sol.t))

\* the distinct (patient, day) pairs occurring in the schedule
SchedulePatientDays ==
    UNION {{<<result.schedule[i].patient_ids[j], result.schedule[i].day>> :
               j \in DOMAIN result.schedule[i].patient_ids}
           : i \in Records}

PayloadInstancesValidated ==
    pc = "accepted" =>
        validate_instance(instance.therapists, instance.patients, instance.rooms,
                          instance.specialties, instance.therapies) = ""

(***************************************************************************)
(* Claims about the continuous-hours rule.                                 *)
(***************************************************************************)

\* the runs of n consecutive blocks inside one segment
Streaks(n) ==
    UNION {{{segment[idx + j] : j \in 1..n} : idx \in 0..(Len(segment) - n)}
           : segment \in Range(consecutive_segments)}

\* C25 as stated: in an OPTIMAL or FEASIBLE result no patient with
\* max_continuous_hours >= 1 attends max_continuous_hours + 1 consecutive
\* blocks of one segment on one day.
NoLongerStreak ==
    Succeeded =>
        \A patient \in Range(instance.patients) :
            patient.max_continuous_hours >= 1 =>
                \A day \in Days :
                    \A streak \in Streaks(patient.max_continuous_hours + 1) :
                        \E b \in streak : RecordsIn(patient.id, day, {b}) = {}

(***************************************************************************)
(* Claims relating the diagnostic models to the primary model.             *)
(***************************************************************************)

\* the assumptions explainer solved its model: it reports a solver status
\* with a solution, or what it found out about an infeasible model
AssumptionModelSolved ==
    /\ Failed
    /\ result.diagnostics_by_method.assumptions # <<>>
    /\ \/ result.diagnostics_by_method.assumptions[1]
              \in {<<"assumption_status", "OPTIMAL">>, <<"assumption_status", "FEASIBLE">>}
       \/ result.diagnostics_by_method.assumptions[1][1]
              \notin {"no_assumptions", "assumptions_unsupported", "assumption_status"}

AssumptionModelInfeasible ==
    /\ AssumptionModelSolved
    /\ result.diagnostics_by_method.assumptions[1][1] # "assumption_status"

\* C26: for the instance handed to solve, the assumption model with every
\* registered literal true and the primary model have the same satisfying
\* assignments of session_active, patient_in_session and staff; every label
\* has one literal and assumption_index_to_label maps that literal back to
\* the label; and whenever the explainer has solved its model, it found it
\* infeasible exactly when the primary model has no solution.
AssumptionModelEquivalent ==
    /\ pc = "ready" =>
           \A V \in {build_base_variables(instance)} :
           \A literals \in {assumptions(instance, V)} :
           \A index_to_label \in {assumption_index_to_label(instance, V)} :
               /\ AssumptionSolutions(instance, V) = Solutions(instance, V)
               /\ DOMAIN literals = AssumptionLabels(instance, V)
               /\ \A label \in DOMAIN literals :
                      /\ index_to_label[literals[label]] = label
                      /\ label_for_literal(index_to_label, literals[label]) = label
               /\ \A i \in DOMAIN index_to_label : literals[index_to_label[i]] = i
    /\ AssumptionModelSolved =>
           (AssumptionModelInfeasible <=> Solutions(instance, BuiltVariables) = {})

\* a solve stopped by the time limit on an instance with several schedules
\* and a no_same_day rule, whose assumption model the explainer solved
AssumptionModelEquivalentWitness ==
    /\ result.status = "UNKNOWN"
    /\ result.diagnostics_by_method.assumptions = << <<"assumption_status", "OPTIMAL">> >>
    /\ \E patient \in Range(instance.patients) : patient.no_same_day_therapies # {}
    /\ Cardinality(Solutions(instance, BuiltVariables)) >= 2

\* C27: whenever the primary model has no solution and the soft model is
\* solved, the soft explainer names at least one violation: a solution of the
\* soft model whose slacks are all 0 is a solution of the primary model.
SoftExplainerNamesViolation ==
    (Failed /\ result.diagnostics_by_method.soft = <<>>)
        => Solutions(instance, BuiltVariables) # {}

----------------------------------------------------------------------------
(* Claims about the requests of the API                                    *)

\* C28: a run whose solve ended OPTIMAL or FEASIBLE with at least one
\* session has its schedule accepted by export_excel and is answered with
\* the ScheduleResponse (status 200).
RunStoresWorkbook ==
    \A i \in Slots :
        (/\ requests[i].kind = "run"
         /\ requests[i].pc = "done"
         /\ requests[i].status \in {"OPTIMAL", "FEASIBLE"}
         /\ requests[i].schedule # <<>>)
            => /\ export_excel(requests[i].schedule).raised = ""
               /\ requests[i].response = 200

AllCompleted == \A i \in Slots : requests[i].pc \in {"idle", "done"}

\* every request so far is a run or a delete of this user
OnlyRunsAndDeletesOf(user) ==
    \A i \in Slots :
        /\ requests[i].kind \in {"none", "run", "delete"}
        /\ requests[i].user \in {<<>>, user}

\* C29: once all the run and delete requests of one user have completed,
\* the user's latest.json is absent or names a session whose schedule.json
\* is stored.
LatestNamesStoredRun ==
    \A user \in Users :
        (AllCompleted /\ OnlyRunsAndDeletesOf(user)) =>
            \/ latest_key(user) \notin DOMAIN storage
            \/ session_prefix(user, storage[latest_key(user)].sessionId) \o <<SCHEDULE_JSON>>
                   \in DOMAIN storage

\* the user whose run_solver_endpoint request drew the session id
OwnerOf(session_id) ==
    {requests[i].user : i \in {j \in Slots : /\ requests[j].kind = "run"
                                              /\ requests[j].session_id = session_id}}

\* a user's latest.json names a session of that user
LatestIsolated ==
    \A user \in Users :
        latest_key(user) \in DOMAIN storage =>
            OwnerOf(storage[latest_key(user)].sessionId) \subseteq {user}

\* C30: on both backends the runs listed for a user are runs of that user,
\* and delete_run leaves a user's latest.json naming a session of that user.
RunListingsIsolated ==
    /\ \A i \in Slots :
           (requests[i].kind = "list" /\ requests[i].pc = "done") =>
               \A n \in DOMAIN requests[i].listed :
                   requests[i].listed[n].userId = requests[i].user
    /\ LatestIsolated

============================================================================
